---- MODULE Spec2Model ----
(***************************************************************************)
(* A model of the food-ordering bot of src/bot.py: the per-user session    *)
(* store (FSMStorage, SQLite), the menu / orders / clients sheets, the     *)
(* reserve / release protocol on the menu sheet and the commit run of      *)
(* _finalize_order, one action per await of that coroutine.                *)
(***************************************************************************)
EXTENDS Integers, Sequences, FiniteSets, TLC

VARIABLES
    fsm_states,       \* table fsm_states: user -> [exists, state, data]
    sheet_menu,       \* sheet "Меню": sequence of rows [day, dish, photo, qty]
    sheet_orders,     \* sheet "Заказы": appended order rows
    sheet_clients,    \* sheet "Клиенты": the users that have a client row
    sheet_overorders, \* sheet "Заказы свыше": appended missed-demand rows
    runs,             \* the _finalize_order coroutines started so far
    last_event,       \* the event whose handler was dispatched last
    clock,            \* part of the local day the wall clock is in
    stock0,           \* the quantities of the menu rows when the bot started
    card,             \* the card messages of a chat and the render in hand
    call,             \* the utility call in hand: its arguments and its result
    tasks             \* the handlers of one user's events that run at the same time

vars == <<fsm_states, sheet_menu, sheet_orders, sheet_clients,
          sheet_overorders, runs, last_event, clock, stock0, card, call, tasks>>

----------------------------------------------------------------------------
(* Bounds of the model *)

\* commit runs (confirm presses) started in one behaviour
MaxRuns == 2
\* largest quantity a menu row starts with
MaxStock == 2
\* missed-demand rows appended in one behaviour
MaxOverorders == 1

Users == {"u1", "u2"}
RunIds == 1..MaxRuns

\* JSON null / Python None for a text value
NULL == "<null>"

\* no utility call in hand
NoCall == [fn |-> "none"]

----------------------------------------------------------------------------
(* Characters: a text is handled as the sequence of its characters *)

RECURSIVE join(_)
join(s) == IF s = <<>> THEN "" ELSE Head(s) \o join(Tail(s))

is_digit(ch) == ch \in {"0", "1", "2", "3", "4", "5", "6", "7", "8", "9"}
is_space(ch) == ch = " "

RECURSIVE lstrip(_)
lstrip(s) == IF s # <<>> /\ is_space(Head(s)) THEN lstrip(Tail(s)) ELSE s

RECURSIVE rstrip(_)
rstrip(s) ==
    IF s # <<>> /\ is_space(s[Len(s)]) THEN rstrip(SubSeq(s, 1, Len(s) - 1)) ELSE s

\* str.strip() on the characters
strip_chars(s) == rstrip(lstrip(s))

----------------------------------------------------------------------------
(* Dates and the clock *)

TodayLocal == "01.05.2024"
Tomorrow == "02.05.2024"
Yesterday == "30.04.2024"

\* datetime.now().strftime("%Y-%m-%d %H:%M:%S"): the local date, as ISO date-time
now_local_str(c) == [fmt |-> "isodt", date |-> TodayLocal]

\* now_msk_str: datetime.now() + 3 hours; in the last three hours of the local
\* day ("late") that is already the next calendar date
now_msk_str(c) == [fmt |-> "isodt", date |-> IF c = "late" THEN Tomorrow ELSE TodayLocal]

\* A day value is [fmt, date]: the format its text is written in and the
\* calendar date written in it.
DayFormats == {"dmy", "iso", "isodt"}
DayValues == [fmt : DayFormats, date : {Yesterday, TodayLocal, Tomorrow}]

\* a day cell that holds no date: an empty cell, a cell with a word in it
BlankCells == {[fmt |-> "empty", date |-> NULL], [fmt |-> "text", date |-> NULL]}

\* the characters of a date written dd.mm.yyyy
date_chars(date) ==
    CASE date = TodayLocal -> <<"0", "1", ".", "0", "5", ".", "2", "0", "2", "4">>
      [] date = Tomorrow -> <<"0", "2", ".", "0", "5", ".", "2", "0", "2", "4">>
      [] OTHER -> <<"3", "0", ".", "0", "4", ".", "2", "0", "2", "4">>

\* the text of a day value: dd.mm.yyyy, YYYY-MM-DD or YYYY-MM-DD HH:MM:SS, or
\* the text of a cell that holds no date
day_text(s) ==
    LET d == date_chars(s.date)
        ymd == SubSeq(d, 7, 10) \o <<"-">> \o SubSeq(d, 4, 5) \o <<"-">> \o SubSeq(d, 1, 2)
    IN CASE s.fmt = "dmy" -> d
         [] s.fmt = "iso" -> ymd
         [] s.fmt = "isodt" -> ymd \o <<" ", "1", "2", ":", "3", "0", ":", "0", "0">>
         [] s.fmt = "text" -> <<"M", "o", "n">>
         [] OTHER -> <<>>

\* \w on the characters of a day text
is_word(ch) == ch \notin {" ", ".", "-", ":"}

\* \b: exactly one of the characters before and at position i is a word character
word_boundary(s, i) ==
    (i <= Len(s) /\ is_word(s[i])) # (i > 1 /\ is_word(s[i - 1]))

\* \d{n} at position i
digits_at(s, i, n) == i + n - 1 <= Len(s) /\ \A k \in i..(i + n - 1) : is_digit(s[k])

char_at(s, i, ch) == i <= Len(s) /\ s[i] = ch

\* \b\d{2}\.\d{2}\.\d{4}\b matches at position i
match_dmy(s, i) ==
    /\ word_boundary(s, i) /\ digits_at(s, i, 2) /\ char_at(s, i + 2, ".")
    /\ digits_at(s, i + 3, 2) /\ char_at(s, i + 5, ".")
    /\ digits_at(s, i + 6, 4) /\ word_boundary(s, i + 10)

\* \b(\d{4})-(\d{2})-(\d{2})\b matches at position i
match_ymd(s, i) ==
    /\ word_boundary(s, i) /\ digits_at(s, i, 4) /\ char_at(s, i + 4, "-")
    /\ digits_at(s, i + 5, 2) /\ char_at(s, i + 7, "-")
    /\ digits_at(s, i + 8, 2) /\ word_boundary(s, i + 10)

\* re.search: the leftmost of the positions where the pattern matches, 0 if none
leftmost(hits) ==
    IF hits = {} THEN 0 ELSE CHOOSE i \in hits : \A j \in hits : i <= j

dmy_of_mut(y, mo, d) == y \o <<"-">> \o mo \o <<"-">> \o d
\* f"{d}.{mo}.{y}"
dmy_of(y, mo, d) == d \o <<".">> \o mo \o <<".">> \o y

\* extract_ddmmyyyy on the characters: a dd.mm.yyyy found in the text is
\* returned as it is, else a yyyy-mm-dd found in it is rearranged to
\* dd.mm.yyyy, else (empty text, no date in it) today's local date
extract_chars(s, today) ==
    IF s = <<>> THEN today
    ELSE LET t == strip_chars(s)
             i == leftmost({k \in 1..Len(t) : match_dmy(t, k)})
             j == leftmost({k \in 1..Len(t) : match_ymd(t, k)})
         IN IF i # 0 THEN SubSeq(t, i, i + 9)
            ELSE IF j # 0
                 THEN dmy_of(SubSeq(t, j, j + 3), SubSeq(t, j + 5, j + 6), SubSeq(t, j + 8, j + 9))
                 ELSE today

\* what extract_ddmmyyyy returns for each day value (@@ makes it a table that
\* is computed once)
Extracted ==
    [s \in DayValues \cup BlankCells |-> join(extract_chars(day_text(s), date_chars(TodayLocal)))] @@ <<>>

extract_ddmmyyyy(s, c) == Extracted[s]

----------------------------------------------------------------------------
(* Dish texts: str.strip() and str.lower() on the texts the model uses *)

strip(s) ==
    CASE s = " Plov " -> "Plov"
      [] s = " plov " -> "plov"
      [] OTHER -> s

lower(s) ==
    CASE s = "Plov" -> "plov"
      [] s = " Plov " -> " plov "
      [] s = "Soup" -> "soup"
      [] s = "Set" -> "set"
      [] OTHER -> s

want_dish_of_mut(dish_name) ==
    IF dish_name = NULL THEN "plov" ELSE lower(strip(dish_name))
\* str(dish_name or "").strip().lower()
want_dish_of(dish_name) ==
    IF dish_name = NULL THEN "" ELSE lower(strip(dish_name))

----------------------------------------------------------------------------
(* Sheet "Меню" *)

RECURSIVE find_from(_, _, _, _, _)
find_from(sheet, i, want_day, want_dish, c) ==
    IF i > Len(sheet) THEN 0
    ELSE IF extract_ddmmyyyy(sheet[i].day, c) = want_day
            /\ lower(strip(sheet[i].dish)) = want_dish
         THEN i
         ELSE find_from(sheet, i + 1, want_day, want_dish, c)

\* find_menu_row_by_day_and_dish: the index of the first row whose day cell and
\* dish cell match, 0 (None) when there is none
find_menu_row_by_day_and_dish(sheet, day_name, dish_name, c) ==
    find_from(sheet, 1, extract_ddmmyyyy(day_name, c), want_dish_of(dish_name), c)

RECURSIVE menu_from(_, _, _, _)
menu_from(sheet, i, want_day, c) ==
    IF i > Len(sheet) THEN <<>>
    ELSE IF extract_ddmmyyyy(sheet[i].day, c) = want_day
         THEN <<sheet[i]>> \o menu_from(sheet, i + 1, want_day, c)
         ELSE menu_from(sheet, i + 1, want_day, c)

\* get_menu_for_day: the rows of the day, in sheet order
get_menu_for_day(sheet, day_name, c) ==
    menu_from(sheet, 1, extract_ddmmyyyy(day_name, c), c)

get_quantity_by_row(sheet, row_index) == sheet[row_index].qty

set_quantity_by_row(sheet, row_index, new_qty) ==
    [sheet EXCEPT ![row_index].qty = new_qty]

\* reserve_portions_for_today / release_portions_for_today: int(qty), at least 1
need_of(qty) == IF qty <= 0 THEN 1 ELSE qty

\* reserve_portions_for_today: the refusal test
\* a reserve that never refuses
insufficient_mut(current, need) == FALSE
insufficient(current, need) == current < need

\* reserve_portions_for_today: the value written back
\* a reserve that writes one portion too many back
reserved_qty_mut(current, need) == current - need + 1
reserved_qty(current, need) == current - need

\* release_portions_for_today: the value written back
\* a release that never writes more than the largest starting quantity
released_qty_mut(current, add_back) ==
    IF current + add_back > MaxStock THEN MaxStock ELSE current + add_back
released_qty(current, add_back) == current + add_back

----------------------------------------------------------------------------
(* FSMStorage: one row per user, [exists, state, data]; data is the JSON      *)
(* object of the context, `has` the keys present in it                        *)

EmptyData ==
    [has |-> {}, username |-> NULL, name |-> NULL, phone |-> NULL,
     menu |-> <<>>, menu_idx |-> 0,
     chosen_dish |-> NULL, chosen_tariff |-> NULL, chosen_address |-> NULL,
     chosen_time |-> NULL, qty |-> 0, reply_target |-> NULL]

NoRow == [exists |-> FALSE, state |-> NULL, data |-> EmptyData]

get_state(store, u) == IF store[u].exists THEN store[u].state ELSE NULL

get_data(store, u) == IF store[u].exists THEN store[u].data ELSE EmptyData

\* a clear that resets the state and keeps the context
clear_mut(store, u) == [store EXCEPT ![u].state = NULL]
clear(store, u) == [store EXCEPT ![u] = NoRow]

\* set_state: None deletes the row; otherwise the row is inserted with the
\* data it had (or {}) and the new state
\* a set_state whose None resets the state column and keeps the row
set_state_mut(store, u, state) ==
    IF state = NULL THEN [store EXCEPT ![u].state = NULL]
    ELSE [store EXCEPT ![u] = [exists |-> TRUE, state |-> state, data |-> get_data(store, u)]]
set_state(store, u, state) ==
    IF state = NULL THEN [store EXCEPT ![u] = NoRow]
    ELSE [store EXCEPT ![u] = [exists |-> TRUE, state |-> state, data |-> get_data(store, u)]]

\* dict.update: the keys of p overwrite, the others stay
\* an update that replaces the context by the new keys
merge_mut(d, p) == p
merge(d, p) ==
    [has |-> d.has \cup p.has,
     username |-> IF "username" \in p.has THEN p.username ELSE d.username,
     name |-> IF "name" \in p.has THEN p.name ELSE d.name,
     phone |-> IF "phone" \in p.has THEN p.phone ELSE d.phone,
     menu |-> IF "menu" \in p.has THEN p.menu ELSE d.menu,
     menu_idx |-> IF "menu_idx" \in p.has THEN p.menu_idx ELSE d.menu_idx,
     chosen_dish |-> IF "chosen_dish" \in p.has THEN p.chosen_dish ELSE d.chosen_dish,
     chosen_tariff |-> IF "chosen_tariff" \in p.has THEN p.chosen_tariff ELSE d.chosen_tariff,
     chosen_address |-> IF "chosen_address" \in p.has THEN p.chosen_address ELSE d.chosen_address,
     chosen_time |-> IF "chosen_time" \in p.has THEN p.chosen_time ELSE d.chosen_time,
     qty |-> IF "qty" \in p.has THEN p.qty ELSE d.qty,
     reply_target |-> IF "reply_target" \in p.has THEN p.reply_target ELSE d.reply_target]

\* the write of update_data: the row is inserted with state NULL, or its data
\* replaced
put_data(store, u, data) ==
    [store EXCEPT ![u] = [exists |-> TRUE, state |-> get_state(store, u), data |-> data]]

\* update_data: get_data, dict.update, write
update_data(store, u, p) == put_data(store, u, merge(get_data(store, u), p))

----------------------------------------------------------------------------
(* Sheets "Клиенты" and "Заказы" *)

RECURSIVE find_client_from(_, _, _)
find_client_from(clients, i, telegram_id) ==
    IF i > Len(clients) THEN 0
    ELSE IF clients[i].telegram_id = telegram_id THEN i
         ELSE find_client_from(clients, i + 1, telegram_id)

find_client_mut(clients, telegram_id) == IF clients = <<>> THEN 0 ELSE 1
\* find_client: the index of the first client row of the user, 0 (None) when
\* there is none
find_client(clients, telegram_id) == find_client_from(clients, 1, telegram_id)

----------------------------------------------------------------------------
(* Tariffs and the lines of a dish text *)

\* cb_choose_tariff: the label of a tariff code
tariff_label(code) ==
    CASE code = "max" -> "Maximum"
      [] code = "standard_plus" -> "Standard+"
      [] code = "standard_soup" -> "Standard (+soup)"
      [] code = "standard_salad" -> "Standard (+salad)"
      [] OTHER -> code

\* _strip_header_line: the non-empty lines of a dish text
strip_header_line(text) ==
    CASE text = "" -> <<>>
      [] text = "Set" -> <<"Borsch", "Plov", "Salad", "Tea">>
      [] OTHER -> <<strip(text)>>

\* format_selection_for_tariff: positions 1..4 are soup, hot, salad, drink
tariff_wants(tariff) ==
    CASE tariff = "Maximum" -> {1, 2, 3, 4}
      [] tariff = "Standard+" -> {1, 2, 3}
      [] tariff = "Standard (+soup)" -> {1, 2}
      [] tariff = "Standard (+salad)" -> {2, 3}
      [] OTHER -> {2}

RECURSIVE pick_lines(_, _, _)
pick_lines(lines, i, want) ==
    IF i > 4 \/ i > Len(lines) THEN <<>>
    ELSE IF i \in want THEN <<lines[i]>> \o pick_lines(lines, i + 1, want)
         ELSE pick_lines(lines, i + 1, want)

\* format_selection_for_tariff: the wanted lines in menu order, the whole text
\* when none of them is there
format_selection_for_tariff(dish_text, tariff) ==
    LET lines == strip_header_line(dish_text)
        ordered == pick_lines(lines, 1, tariff_wants(tariff))
    IN IF ordered = <<>> THEN lines ELSE ordered

----------------------------------------------------------------------------
(* The commit run: _finalize_order, one action per await *)

PaymentLabels == {"cash", "paid"}

IdleRun ==
    [pc |-> "idle", uid |-> NULL, label |-> NULL,
     dish |-> NULL, tariff |-> NULL, address |-> NULL, timeslot |-> NULL, qty |-> 0,
     row |-> 0, current |-> 0, after |-> NULL, menu |-> <<>>,
     state0 |-> NULL, q0 |-> <<>>, err |-> NULL, avail |-> 0,
     reserved |-> FALSE, looked_up |-> FALSE, appended |-> FALSE,
     releases |-> 0, rel_dish |-> NULL, rel_qty |-> 0, cleared |-> FALSE,
     overlapped |-> FALSE, crm |-> NULL, note |-> NULL, ctx0 |-> NoRow]

quantities(sheet) == [i \in 1..Len(sheet) |-> sheet[i].qty]

Active(r) == runs[r].pc \notin {"idle", "done", "raised"}

\* a coroutine that ended: its local variables are gone, what it did stays on record
Ended(run, pc) ==
    [run EXCEPT !.pc = pc, !.row = 0, !.current = 0, !.menu = <<>>]

NoActiveRun == \A r \in RunIds : ~Active(r)

\* cb_confirm_cash / cb_confirm_paid: the handler starts and reads the context;
\* q0 and ctx0 are what the record of the run keeps of the menu sheet and of
\* the session row at that moment
NewRun(u, label, q0, ctx0) ==
    LET d == get_data(fsm_states, u) IN
    [IdleRun EXCEPT
        !.pc = "reserve_find", !.uid = u, !.label = label,
        !.dish = d.chosen_dish,
        !.tariff = IF "chosen_tariff" \in d.has THEN d.chosen_tariff ELSE "",
        !.address = d.chosen_address,
        !.timeslot = d.chosen_time,
        !.qty = IF "qty" \in d.has THEN d.qty ELSE 1,
        !.state0 = get_state(fsm_states, u),
        !.q0 = q0,
        !.ctx0 = ctx0,
        !.overlapped = \E q \in RunIds : Active(q) /\ runs[q].uid = u]

\* the next free run record
FreeRun(r) == runs[r].pc = "idle" /\ \A q \in RunIds : q < r => runs[q].pc # "idle"

\* a confirm press while other handlers may be running
Press(u, label) ==
    /\ \E r \in RunIds :
        /\ FreeRun(r)
        /\ runs' = [runs EXCEPT ![r] = NewRun(u, label, <<>>, NoRow)]
    /\ last_event' = [kind |-> "confirm", uid |-> u, arg |-> label, tick |-> 1 - last_event.tick]
    /\ UNCHANGED <<fsm_states, sheet_menu, sheet_orders, sheet_clients, sheet_overorders, clock, stock0, card, call, tasks>>

\* a confirm press handled when no other handler is running; only the record
\* of the run in hand is kept
PressSeq(u, label) ==
    /\ NoActiveRun
    /\ \E r \in RunIds :
        /\ FreeRun(r)
        /\ runs' = [q \in RunIds |->
                IF q = r THEN NewRun(u, label, quantities(sheet_menu), fsm_states[u])
                ELSE [IdleRun EXCEPT !.pc = runs[q].pc]]
    /\ last_event' = [kind |-> "confirm", uid |-> u, arg |-> label, tick |-> 1 - last_event.tick]
    /\ UNCHANGED <<fsm_states, sheet_menu, sheet_orders, sheet_clients, sheet_overorders, clock, stock0, card, call, tasks>>

\* reserve_portions_for_today returns (False, err): _finalize_order answers the
\* alert and goes back to the menu
refused_mut(run, err, avail) == [run EXCEPT !.pc = "find_client", !.err = err, !.avail = avail]
refused(run, err, avail) == [run EXCEPT !.pc = "fail_set_state", !.err = err, !.avail = avail]

\* reserve_portions_for_today: sheets_find_menu_row
ReserveFind(r) ==
    /\ runs[r].pc = "reserve_find"
    /\ LET row == find_menu_row_by_day_and_dish(sheet_menu, now_local_str(clock), runs[r].dish, clock) IN
       runs' = [runs EXCEPT ![r] =
            IF row = 0
            THEN refused(@, "not_found", 0)
            ELSE [@ EXCEPT !.pc = "reserve_read", !.row = row]]
    /\ UNCHANGED <<fsm_states, sheet_menu, sheet_orders, sheet_clients, sheet_overorders, last_event, clock, stock0, card, call, tasks>>

\* reserve_portions_for_today: sheets_get_quantity_by_row and the refusal test
ReserveRead(r) ==
    /\ runs[r].pc = "reserve_read"
    /\ LET current == get_quantity_by_row(sheet_menu, runs[r].row) IN
       runs' = [runs EXCEPT ![r] =
            IF insufficient(current, need_of(runs[r].qty))
            THEN refused(@, "insufficient", current)
            ELSE [@ EXCEPT !.pc = "reserve_write", !.current = current]]
    /\ UNCHANGED <<fsm_states, sheet_menu, sheet_orders, sheet_clients, sheet_overorders, last_event, clock, stock0, card, call, tasks>>

\* reserve_portions_for_today: sheets_set_quantity_by_row, return (True, None)
ReserveWrite(r) ==
    /\ runs[r].pc = "reserve_write"
    /\ sheet_menu' = set_quantity_by_row(sheet_menu, runs[r].row,
                        reserved_qty(runs[r].current, need_of(runs[r].qty)))
    /\ runs' = [runs EXCEPT ![r] = [@ EXCEPT !.pc = "find_client", !.reserved = TRUE]]
    /\ UNCHANGED <<fsm_states, sheet_orders, sheet_clients, sheet_overorders, last_event, clock, stock0, card, call, tasks>>

\* reserve failed: call.answer(err), fsm.set_state(uid, "menu")
FailSetState(r) ==
    /\ runs[r].pc = "fail_set_state"
    /\ fsm_states' = set_state(fsm_states, runs[r].uid, "menu")
    /\ runs' = [runs EXCEPT ![r] = [@ EXCEPT !.pc = "fail_get_menu"]]
    /\ UNCHANGED <<sheet_menu, sheet_orders, sheet_clients, sheet_overorders, last_event, clock, stock0, card, call, tasks>>

\* reserve failed: send_today_menu reads the menu of the day
FailGetMenu(r) ==
    /\ runs[r].pc = "fail_get_menu"
    /\ runs' = [runs EXCEPT ![r] =
            [@ EXCEPT !.pc = "fail_update",
                      !.menu = get_menu_for_day(sheet_menu, now_msk_str(clock), clock)]]
    /\ UNCHANGED <<fsm_states, sheet_menu, sheet_orders, sheet_clients, sheet_overorders, last_event, clock, stock0, card, call, tasks>>

\* reserve failed: send_today_menu stores the menu and shows its first card
FailUpdate(r) ==
    /\ runs[r].pc = "fail_update"
    /\ fsm_states' = update_data(fsm_states, runs[r].uid,
            [EmptyData EXCEPT !.has = {"menu", "menu_idx"}, !.menu = runs[r].menu, !.menu_idx = 0])
    /\ runs' = [runs EXCEPT ![r] = Ended(@, "done")]
    /\ UNCHANGED <<sheet_menu, sheet_orders, sheet_clients, sheet_overorders, last_event, clock, stock0, card, call, tasks>>

\* sheets_find_client; without a profile release is called
FindClient(r) ==
    /\ runs[r].pc = "find_client"
    /\ runs' = [runs EXCEPT ![r] =
            IF find_client(sheet_clients, runs[r].uid) # 0
            THEN \* format_selection_for_tariff(None, ...) raises AttributeError
                 IF runs[r].dish = NULL
                 THEN Ended([@ EXCEPT !.looked_up = TRUE], "raised")
                 ELSE [@ EXCEPT !.pc = "append", !.looked_up = TRUE]
            ELSE [@ EXCEPT !.pc = "rel_find", !.looked_up = TRUE, !.after = "profile",
                           !.releases = @ + 1, !.rel_dish = runs[r].dish, !.rel_qty = runs[r].qty]]
    /\ UNCHANGED <<fsm_states, sheet_menu, sheet_orders, sheet_clients, sheet_overorders, last_event, clock, stock0, card, call, tasks>>

order_record(r) ==
    LET c == sheet_clients[find_client(sheet_clients, runs[r].uid)] IN
    [user_id |-> runs[r].uid, name |-> c.name, phone |-> c.phone,
     dish |-> format_selection_for_tariff(runs[r].dish, runs[r].tariff),
     of_dish |-> runs[r].dish,
     tariff |-> runs[r].tariff, address |-> runs[r].address,
     timeslot |-> runs[r].timeslot, qty |-> runs[r].qty, payment |-> runs[r].label]

\* sheets_append_order returns
AppendOk(r) ==
    /\ runs[r].pc = "append"
    /\ sheet_orders' = Append(sheet_orders, order_record(r))
    /\ runs' = [runs EXCEPT ![r] = [@ EXCEPT !.pc = "crm", !.appended = TRUE]]
    /\ UNCHANGED <<fsm_states, sheet_menu, sheet_clients, sheet_overorders, last_event, clock, stock0, card, call, tasks>>

\* sheets_append_order raises: the except branch calls release
AppendFail(r) ==
    /\ runs[r].pc = "append"
    /\ runs' = [runs EXCEPT ![r] =
            [@ EXCEPT !.pc = "rel_find", !.after = "persist",
                      !.releases = @ + 1, !.rel_dish = runs[r].dish, !.rel_qty = runs[r].qty]]
    /\ UNCHANGED <<fsm_states, sheet_menu, sheet_orders, sheet_clients, sheet_overorders, last_event, clock, stock0, card, call, tasks>>

\* where _finalize_order goes on when release_portions_for_today has returned
after_release_mut(run) ==
    IF run.after = "profile" THEN [run EXCEPT !.pc = "clear"] ELSE [run EXCEPT !.pc = "crm"]
after_release(run) ==
    IF run.after = "profile" THEN [run EXCEPT !.pc = "clear"] ELSE Ended(run, "done")

\* release_portions_for_today: sheets_find_menu_row
RelFind(r) ==
    /\ runs[r].pc = "rel_find"
    /\ LET row == find_menu_row_by_day_and_dish(sheet_menu, now_local_str(clock), runs[r].rel_dish, clock) IN
       runs' = [runs EXCEPT ![r] =
            IF row = 0
            THEN after_release(@)
            ELSE [@ EXCEPT !.pc = "rel_read", !.row = row]]
    /\ UNCHANGED <<fsm_states, sheet_menu, sheet_orders, sheet_clients, sheet_overorders, last_event, clock, stock0, card, call, tasks>>

\* release_portions_for_today: sheets_get_quantity_by_row
RelRead(r) ==
    /\ runs[r].pc = "rel_read"
    /\ runs' = [runs EXCEPT ![r] =
            [@ EXCEPT !.pc = "rel_write", !.current = get_quantity_by_row(sheet_menu, runs[r].row)]]
    /\ UNCHANGED <<fsm_states, sheet_menu, sheet_orders, sheet_clients, sheet_overorders, last_event, clock, stock0, card, call, tasks>>

\* release_portions_for_today: sheets_set_quantity_by_row
RelWrite(r) ==
    /\ runs[r].pc = "rel_write"
    /\ sheet_menu' = set_quantity_by_row(sheet_menu, runs[r].row,
                        released_qty(runs[r].current, need_of(runs[r].rel_qty)))
    /\ runs' = [runs EXCEPT ![r] = after_release(@)]
    /\ UNCHANGED <<fsm_states, sheet_orders, sheet_clients, sheet_overorders, last_event, clock, stock0, card, call, tasks>>

\* no profile: call.answer, fsm.clear(uid), the error card
Clear(r) ==
    /\ runs[r].pc = "clear"
    /\ fsm_states' = clear(fsm_states, runs[r].uid)
    /\ runs' = [runs EXCEPT ![r] = Ended([@ EXCEPT !.cleared = TRUE], "done")]
    /\ UNCHANGED <<sheet_menu, sheet_orders, sheet_clients, sheet_overorders, last_event, clock, stock0, card, call, tasks>>

\* what a peripheral push leaves on record: its outcome where the record of
\* the run is kept in full, the call alone otherwise
outcome(run, ok) == IF run.q0 = <<>> THEN "called" ELSE IF ok THEN "ok" ELSE "failed"

\* where _finalize_order goes on after crm_send_order, which returns True or
\* False and whose exceptions are logged
after_crm(ok) == "cache_get"

\* crm_send_order: the push is accepted or fails
CrmPush(r) ==
    /\ runs[r].pc = "crm"
    /\ \E ok \in BOOLEAN :
        runs' = [runs EXCEPT ![r] = [@ EXCEPT !.pc = after_crm(ok), !.crm = outcome(runs[r], ok)]]
    /\ UNCHANGED <<fsm_states, sheet_menu, sheet_orders, sheet_clients, sheet_overorders, last_event, clock, stock0, card, call, tasks>>

\* the cached quantity of the card shown: max(0, cur - 1)
cached_after_order(cur) == IF cur - 1 < 0 THEN 0 ELSE cur - 1

\* order appended: the context is read to update the cached menu
CacheGet(r) ==
    /\ runs[r].pc = "cache_get"
    /\ LET local == get_data(fsm_states, runs[r].uid)
           menu == local.menu
           idx == local.menu_idx
       IN runs' = [runs EXCEPT ![r] =
            IF 0 <= idx /\ idx < Len(menu)
            THEN [@ EXCEPT !.pc = "cache_upd",
                           !.menu = [menu EXCEPT ![idx + 1].qty = cached_after_order(@)]]
            ELSE [@ EXCEPT !.pc = "notify"]]
    /\ UNCHANGED <<fsm_states, sheet_menu, sheet_orders, sheet_clients, sheet_overorders, last_event, clock, stock0, card, call, tasks>>

\* order appended: fsm.update_data(uid, menu=menu)
CacheUpd(r) ==
    /\ runs[r].pc = "cache_upd"
    /\ fsm_states' = update_data(fsm_states, runs[r].uid,
            [EmptyData EXCEPT !.has = {"menu"}, !.menu = runs[r].menu])
    /\ runs' = [runs EXCEPT ![r] = [@ EXCEPT !.pc = "notify"]]
    /\ UNCHANGED <<sheet_menu, sheet_orders, sheet_clients, sheet_overorders, last_event, clock, stock0, card, call, tasks>>

\* where _finalize_order goes on after notify_recipients, which swallows the
\* exception of every send
after_notify_mut(ok) == IF ok THEN "final_set_state" ELSE "final_update"
after_notify(ok) == "final_set_state"

\* notify_recipients: the sends are accepted or fail; the "order accepted"
\* card follows
Notify(r) ==
    /\ runs[r].pc = "notify"
    /\ \E ok \in BOOLEAN :
        runs' = [runs EXCEPT ![r] = [@ EXCEPT !.pc = after_notify(ok), !.note = outcome(runs[r], ok)]]
    /\ UNCHANGED <<fsm_states, sheet_menu, sheet_orders, sheet_clients, sheet_overorders, last_event, clock, stock0, card, call, tasks>>

\* order appended: fsm.set_state(uid, "menu")
FinalSetState(r) ==
    /\ runs[r].pc = "final_set_state"
    /\ fsm_states' = set_state(fsm_states, runs[r].uid, "menu")
    /\ runs' = [runs EXCEPT ![r] = [@ EXCEPT !.pc = "final_update"]]
    /\ UNCHANGED <<sheet_menu, sheet_orders, sheet_clients, sheet_overorders, last_event, clock, stock0, card, call, tasks>>

\* order appended: fsm.update_data(uid, chosen_dish=None, chosen_address=None,
\* chosen_time=None), call.answer
FinalUpdate(r) ==
    /\ runs[r].pc = "final_update"
    /\ fsm_states' = update_data(fsm_states, runs[r].uid,
            [EmptyData EXCEPT !.has = {"chosen_dish", "chosen_address", "chosen_time"}])
    /\ runs' = [runs EXCEPT ![r] = Ended(@, "done")]
    /\ UNCHANGED <<sheet_menu, sheet_orders, sheet_clients, sheet_overorders, last_event, clock, stock0, card, call, tasks>>

\* the awaits of _finalize_order whose exception no try block catches: the
\* sheet calls of reserve and release and the profile lookup
RaisingPcs == {"reserve_find", "reserve_read", "reserve_write", "find_client",
               "rel_find", "rel_read", "rel_write"}

\* an external call raises: the exception leaves the handler, nothing else runs
Raise(r) ==
    /\ runs[r].pc \in RaisingPcs
    /\ runs' = [runs EXCEPT ![r] = Ended(@, "raised")]
    /\ UNCHANGED <<fsm_states, sheet_menu, sheet_orders, sheet_clients, sheet_overorders, last_event, clock, stock0, card, call, tasks>>

RunStep(r) ==
    \/ ReserveFind(r)
    \/ ReserveRead(r)
    \/ ReserveWrite(r)
    \/ FailSetState(r)
    \/ FailGetMenu(r)
    \/ FailUpdate(r)
    \/ FindClient(r)
    \/ AppendOk(r)
    \/ AppendFail(r)
    \/ CrmPush(r)
    \/ Notify(r)
    \/ RelFind(r)
    \/ RelRead(r)
    \/ RelWrite(r)
    \/ Clear(r)
    \/ CacheGet(r)
    \/ CacheUpd(r)
    \/ FinalSetState(r)
    \/ FinalUpdate(r)

----------------------------------------------------------------------------
(* Message texts: a text is a string, chars gives its characters *)

chars(t) ==
    CASE t = "1" -> <<"1">>
      [] t = "2" -> <<"2">>
      [] t = "Al Bo" -> <<"A", "l", " ", "B", "o">>
      [] t = "89261234567" -> <<"8", "9", "2", "6", "1", "2", "3", "4", "5", "6", "7">>
      [] t = "3" -> <<"3">>
      [] t = "0" -> <<"0">>
      [] t = " 2 " -> <<" ", "2", " ">>
      [] t = "+79261234567" -> <<"+", "7", "9", "2", "6", "1", "2", "3", "4", "5", "6", "7">>
      [] OTHER -> <<>>

is_letter(ch) == ch \in {"A", "l", "B", "o"}
is_phone_char(ch) == is_digit(ch) \/ ch = "+"

digit_val(ch) ==
    CASE ch = "0" -> 0 [] ch = "1" -> 1 [] ch = "2" -> 2 [] ch = "3" -> 3
      [] ch = "4" -> 4 [] ch = "5" -> 5 [] ch = "6" -> 6 [] ch = "7" -> 7
      [] ch = "8" -> 8 [] OTHER -> 9

RECURSIVE int_of(_)
int_of(s) == IF s = <<>> THEN 0 ELSE 10 * int_of(SubSeq(s, 1, Len(s) - 1)) + digit_val(s[Len(s)])

MinPhoneDigits == 10
MinNameLen == 2
MinAddressLen == 5
MaxQtyDigits == 3

\* normalize_phone on the characters: keep '+' and digits, a leading 8 becomes
\* +7, at least 10 digits; the empty sequence is None
phone_chars(s) ==
    LET kept == SelectSeq(s, is_phone_char)
        digits == IF kept # <<>> /\ Head(kept) = "8" THEN <<"+", "7">> \o Tail(kept) ELSE kept
        only == SelectSeq(digits, is_digit)
    IN IF digits # <<>> /\ Head(digits) = "+" /\ Len(only) >= MinPhoneDigits THEN digits
       ELSE IF Len(only) >= MinPhoneDigits THEN <<"+">> \o only
       ELSE <<>>

\* normalize_phone of a text; NULL is None
normalize_phone(text) ==
    IF phone_chars(chars(text)) = <<>> THEN NULL ELSE join(phone_chars(chars(text)))

RECURSIVE run_end(_, _, _)
\* the index after the longest run of characters of one class that starts at i
run_end(s, i, letters) ==
    IF i <= Len(s) /\ (IF letters THEN is_letter(s[i]) ELSE is_space(s[i]))
    THEN run_end(s, i + 1, letters) ELSE i

\* letters, then optionally a hyphen and letters: the index after it, 0 if none
word_end(s, i) ==
    LET e == run_end(s, i, TRUE) IN
    IF e = i THEN 0
    ELSE IF e <= Len(s) /\ s[e] = "-" /\ run_end(s, e + 1, TRUE) > e + 1
         THEN run_end(s, e + 1, TRUE)
         ELSE e

\* text_handler, awaiting_name: at least 2 characters and the two-word pattern
name_ok(s) ==
    LET e1 == word_end(s, 1)
        e2 == run_end(s, e1, FALSE)
    IN /\ Len(s) >= MinNameLen
       /\ e1 # 0
       /\ e2 > e1
       /\ word_end(s, e2) = Len(s) + 1

\* text_handler, awaiting_qty_manual: \d{1,3} and int(raw) >= 1
qty_ok_mut(raw) ==
    /\ Len(raw) >= 1
    /\ Len(raw) <= MaxQtyDigits
    /\ \A i \in 1..Len(raw) : is_digit(raw[i])
qty_ok(raw) ==
    /\ Len(raw) >= 1
    /\ Len(raw) <= MaxQtyDigits
    /\ \A i \in 1..Len(raw) : is_digit(raw[i])
    /\ int_of(raw) >= 1

----------------------------------------------------------------------------
(* The handlers of messages and callbacks, each one action *)

ADDRESS_OPTIONS == {"Celsius", "Dubrovskaya", "Katin Bor", "BONCHE"}
TIME_SLOTS == {"12-13", "13-14"}
TariffCodes == {"max", "standard_plus", "standard_soup", "standard_salad"}
QtyChoices == {"1", "2", "more"}
BackTargets == {"menu", "addr", "time", "qty", "root"}

\* the record of a dispatched event; tick alternates, so that every dispatch
\* changes last_event
Event(kind, u, arg) == [kind |-> kind, uid |-> u, arg |-> arg, tick |-> 1 - last_event.tick]

\* user.username or ""
username_of(u) == "user"

\* send_today_menu: the menu of the day is read and stored with cursor 0
send_today_menu(store, u) ==
    update_data(store, u,
        [EmptyData EXCEPT !.has = {"menu", "menu_idx"},
                          !.menu = get_menu_for_day(sheet_menu, now_msk_str(clock), clock),
                          !.menu_idx = 0])

\* /start: ensure_registered_and_show_menu
cmd_start(u) ==
    /\ LET named == update_data(
                        set_state(fsm_states, u,
                            IF find_client(sheet_clients, u) # 0 THEN "menu" ELSE "awaiting_name"),
                        u, [EmptyData EXCEPT !.has = {"username"}, !.username = username_of(u)])
       IN fsm_states' = IF find_client(sheet_clients, u) # 0
                        THEN send_today_menu(named, u)
                        ELSE named
    /\ last_event' = Event("start", u, NULL)
    /\ UNCHANGED <<sheet_menu, sheet_orders, sheet_clients, sheet_overorders, runs, clock, stock0, card, call, tasks>>

\* /menu
cmd_menu(u) ==
    /\ fsm_states' = send_today_menu(set_state(fsm_states, u, "menu"), u)
    /\ last_event' = Event("menu", u, NULL)
    /\ UNCHANGED <<sheet_menu, sheet_orders, sheet_clients, sheet_overorders, runs, clock, stock0, card, call, tasks>>

\* /support
cmd_support(u) ==
    /\ fsm_states' = set_state(fsm_states, u, "awaiting_support_message")
    /\ last_event' = Event("support", u, NULL)
    /\ UNCHANGED <<sheet_menu, sheet_orders, sheet_clients, sheet_overorders, runs, clock, stock0, card, call, tasks>>

\* sheets_add_client
add_client(clients, u, name, phone) ==
    Append(clients, [telegram_id |-> u, name |-> name, phone |-> phone])

\* data.get("name", "") or user.full_name
name_for(d) == IF "name" \in d.has /\ d.name \notin {NULL, ""} THEN d.name ELSE "Full Name"

\* the registration both text_handler and contact_handler end with
register(u, phone) ==
    /\ sheet_clients' = add_client(sheet_clients, u, name_for(get_data(fsm_states, u)), phone)
    /\ fsm_states' = send_today_menu(
            update_data(set_state(fsm_states, u, "menu"), u,
                [EmptyData EXCEPT !.has = {"phone"}, !.phone = phone]), u)

\* the chat of the operator, from the environment
ADMIN_CHAT_ID == "u2"

\* a text message; the operator's text in awaiting_support_reply is sent to
\* the reply target and the operator's session is deleted
text_handler(u, text) ==
    LET state == get_state(fsm_states, u)
        stripped == strip_chars(chars(text))
    IN
    /\ last_event' = Event("text", u, text)
    /\ UNCHANGED <<sheet_menu, sheet_orders, sheet_overorders, runs, clock, stock0, card, call, tasks>>
    /\ CASE state = "awaiting_support_message" ->
                /\ fsm_states' = set_state(fsm_states, u, "menu")
                /\ UNCHANGED sheet_clients
         [] u = ADMIN_CHAT_ID /\ state = "awaiting_support_reply" ->
                /\ fsm_states' = set_state(fsm_states, u, NULL)
                /\ UNCHANGED sheet_clients
         [] state = "awaiting_name" ->
                /\ fsm_states' =
                        IF name_ok(stripped)
                        THEN set_state(
                                update_data(fsm_states, u,
                                    [EmptyData EXCEPT !.has = {"name"}, !.name = join(stripped)]),
                                u, "awaiting_phone")
                        ELSE fsm_states
                /\ UNCHANGED sheet_clients
         [] state = "awaiting_phone" ->
                IF normalize_phone(text) # NULL
                THEN register(u, normalize_phone(text))
                ELSE UNCHANGED <<fsm_states, sheet_clients>>
         [] state = "awaiting_custom_address" ->
                /\ fsm_states' =
                        IF Len(stripped) >= MinAddressLen
                        THEN set_state(
                                update_data(fsm_states, u,
                                    [EmptyData EXCEPT !.has = {"chosen_address"},
                                                      !.chosen_address = join(stripped)]),
                                u, "choose_time")
                        ELSE fsm_states
                /\ UNCHANGED sheet_clients
         [] state = "awaiting_qty_manual" ->
                \* the quantity is stored and _show_confirm shows the card
                /\ fsm_states' =
                        IF qty_ok(stripped)
                        THEN update_data(fsm_states, u,
                                [EmptyData EXCEPT !.has = {"qty"}, !.qty = int_of(stripped)])
                        ELSE fsm_states
                /\ UNCHANGED sheet_clients
         [] OTHER -> UNCHANGED <<fsm_states, sheet_clients>>

\* a shared contact: normalize_phone(phone_raw) or phone_raw
contact_handler(u, phone_raw) ==
    /\ last_event' = Event("contact", u, phone_raw)
    /\ UNCHANGED <<sheet_menu, sheet_orders, sheet_overorders, runs, clock, stock0, card, call, tasks>>
    /\ IF get_state(fsm_states, u) = "awaiting_phone"
       THEN register(u, IF normalize_phone(phone_raw) # NULL
                        THEN normalize_phone(phone_raw) ELSE phone_raw)
       ELSE UNCHANGED <<fsm_states, sheet_clients>>

\* cb_menu_prev / cb_menu_next: (data.get("menu_idx", 0) + step) % len(menu);
\* Python's % gives 0..len-1
\* a menu_prev that steps forward
menu_cursor_mut(idx, step, n) == (idx + 1) % n
menu_cursor(idx, step, n) == (idx + step) % n

\* menu_prev / menu_next: step is -1 or 1
cb_menu_step(u, step) ==
    /\ LET data == get_data(fsm_states, u)
           menu == data.menu
       IN fsm_states' =
            IF Len(menu) <= 1 THEN fsm_states
            ELSE update_data(fsm_states, u,
                    [EmptyData EXCEPT !.has = {"menu_idx"},
                                      !.menu_idx = menu_cursor(data.menu_idx, step, Len(menu))])
    /\ last_event' = Event(IF step = 1 THEN "menu_next" ELSE "menu_prev", u, NULL)
    /\ UNCHANGED <<sheet_menu, sheet_orders, sheet_clients, sheet_overorders, runs, clock, stock0, card, call, tasks>>

\* cb_choose_tariff: the availability test on the quantity read from the sheet
\* a test that lets a row with no portion left pass
sold_out_mut(qty) == qty < 0
sold_out(qty) == qty <= 0

\* tariff:<code>: the availability check, then the dish and tariff are stored
cb_choose_tariff(u, code) ==
    LET data == get_data(fsm_states, u)
        menu == data.menu
        idx == data.menu_idx
        in_range == -Len(menu) <= idx /\ idx < Len(menu)
        dish == strip(menu[IF idx < 0 THEN idx + Len(menu) + 1 ELSE idx + 1].dish)
        row_index == find_menu_row_by_day_and_dish(sheet_menu, now_msk_str(clock), dish, clock)
        gone == sold_out(get_quantity_by_row(sheet_menu, row_index))
        found == menu # <<>> /\ in_range /\ row_index # 0
    IN
    /\ last_event' = Event("tariff", u, code)
    /\ UNCHANGED <<sheet_menu, sheet_orders, sheet_clients, runs, clock, stock0, card, call, tasks>>
    /\ IF found /\ gone /\ find_client(sheet_clients, u) # 0
       THEN /\ Len(sheet_overorders) < MaxOverorders
            /\ sheet_overorders' = Append(sheet_overorders,
                    [user_id |-> u, dish |-> dish,
                     name |-> sheet_clients[find_client(sheet_clients, u)].name,
                     phone |-> sheet_clients[find_client(sheet_clients, u)].phone])
       ELSE UNCHANGED sheet_overorders
    /\ fsm_states' =
            IF found /\ ~gone
            THEN set_state(
                    update_data(fsm_states, u,
                        [EmptyData EXCEPT !.has = {"chosen_dish", "chosen_tariff"},
                                          !.chosen_dish = dish,
                                          !.chosen_tariff = tariff_label(code)]),
                    u, "choose_address")
            ELSE fsm_states

\* addr:<address>
cb_choose_address(u, address) ==
    /\ fsm_states' = set_state(
            update_data(fsm_states, u,
                [EmptyData EXCEPT !.has = {"chosen_address"}, !.chosen_address = address]),
            u, "choose_time")
    /\ last_event' = Event("addr", u, address)
    /\ UNCHANGED <<sheet_menu, sheet_orders, sheet_clients, sheet_overorders, runs, clock, stock0, card, call, tasks>>

\* addr_custom
cb_addr_custom(u) ==
    /\ fsm_states' = set_state(fsm_states, u, "awaiting_custom_address")
    /\ last_event' = Event("addr_custom", u, NULL)
    /\ UNCHANGED <<sheet_menu, sheet_orders, sheet_clients, sheet_overorders, runs, clock, stock0, card, call, tasks>>

\* time:<slot>
cb_choose_time(u, timeslot) ==
    /\ fsm_states' = set_state(
            update_data(fsm_states, u,
                [EmptyData EXCEPT !.has = {"chosen_time"}, !.chosen_time = timeslot]),
            u, "choose_qty")
    /\ last_event' = Event("time", u, timeslot)
    /\ UNCHANGED <<sheet_menu, sheet_orders, sheet_clients, sheet_overorders, runs, clock, stock0, card, call, tasks>>

\* qty:<choice>: "more" asks for a number, 1 or 2 is stored and _show_confirm
\* shows the card
cb_choose_qty(u, choice) ==
    /\ fsm_states' =
            IF choice = "more"
            THEN set_state(fsm_states, u, "awaiting_qty_manual")
            ELSE update_data(fsm_states, u,
                    [EmptyData EXCEPT !.has = {"qty"}, !.qty = int_of(chars(choice))])
    /\ last_event' = Event("qty", u, choice)
    /\ UNCHANGED <<sheet_menu, sheet_orders, sheet_clients, sheet_overorders, runs, clock, stock0, card, call, tasks>>

\* back:<target>: the state of the target; any other target falls back to menu
\* a back:time that lands on the address step
back_state_mut(target) ==
    CASE target = "addr" -> "choose_address"
      [] target = "time" -> "choose_address"
      [] target = "qty" -> "choose_qty"
      [] OTHER -> "menu"
back_state(target) ==
    CASE target = "addr" -> "choose_address"
      [] target = "time" -> "choose_time"
      [] target = "qty" -> "choose_qty"
      [] OTHER -> "menu"

cb_back(u, target) ==
    /\ fsm_states' = set_state(fsm_states, u, back_state(target))
    /\ last_event' = Event("back", u, target)
    /\ UNCHANGED <<sheet_menu, sheet_orders, sheet_clients, sheet_overorders, runs, clock, stock0, card, call, tasks>>

\* support_reply:<target>: only the operator; the target is stored in the
\* operator's own context
\* a reply button that stores the reply state in the session of the target
cb_support_reply_mut(u, target_user_id) ==
    /\ fsm_states' =
            IF u # ADMIN_CHAT_ID THEN fsm_states
            ELSE update_data(set_state(fsm_states, target_user_id, "awaiting_support_reply"),
                    target_user_id,
                    [EmptyData EXCEPT !.has = {"reply_target"}, !.reply_target = target_user_id])
    /\ last_event' = Event("support_reply", u, target_user_id)
    /\ UNCHANGED <<sheet_menu, sheet_orders, sheet_clients, sheet_overorders, runs, clock, stock0, card, call, tasks>>
cb_support_reply(u, target_user_id) ==
    /\ fsm_states' =
            IF u # ADMIN_CHAT_ID THEN fsm_states
            ELSE update_data(set_state(fsm_states, ADMIN_CHAT_ID, "awaiting_support_reply"),
                    ADMIN_CHAT_ID,
                    [EmptyData EXCEPT !.has = {"reply_target"}, !.reply_target = target_user_id])
    /\ last_event' = Event("support_reply", u, target_user_id)
    /\ UNCHANGED <<sheet_menu, sheet_orders, sheet_clients, sheet_overorders, runs, clock, stock0, card, call, tasks>>

\* show_menu_again
cb_show_menu_again(u) ==
    /\ fsm_states' = send_today_menu(set_state(fsm_states, u, "menu"), u)
    /\ last_event' = Event("show_menu_again", u, NULL)
    /\ UNCHANGED <<sheet_menu, sheet_orders, sheet_clients, sheet_overorders, runs, clock, stock0, card, call, tasks>>

----------------------------------------------------------------------------
(* Handlers that run at the same time: every update is handled in a task of  *)
(* its own, and a handler gives way at each await. update_data is two awaits: *)
(* get_data, then the INSERT of the merged object.                            *)

TaskIds == {1, 2}

\* a handler not started: partial is the keys it will pass to update_data,
\* data the object update_data has read and merged, next_state the state it
\* sets after the update
IdleTask ==
    [pc |-> "idle", kind |-> NULL, uid |-> NULL, partial |-> EmptyData, data |-> EmptyData,
     next_state |-> NULL, overlapped |-> FALSE]

NoTasks == [t \in TaskIds |-> IdleTask]

TaskActive(t) == tasks[t].pc \notin {"idle", "done"}

\* the next free task record
FreeTask(t) == tasks[t].pc = "idle" /\ \A q \in TaskIds : q < t => tasks[q].pc # "idle"

\* the handler of an event starts and runs to its first await
NewTask(t, kind, u, pc, partial, next_state) ==
    [IdleTask EXCEPT !.pc = pc, !.kind = kind, !.uid = u, !.partial = partial,
                     !.next_state = next_state,
                     !.overlapped = \E q \in TaskIds : q # t /\ TaskActive(q)]

\* cb_menu_prev / cb_menu_next up to update_data: get_data, the two early
\* returns, the new cursor
StartMenuStep(t, u, step) ==
    /\ FreeTask(t)
    /\ LET data == get_data(fsm_states, u)
           menu == data.menu
       IN tasks' = [tasks EXCEPT ![t] =
            IF Len(menu) <= 1
            THEN NewTask(t, "menu_step", u, "done", EmptyData, NULL)
            ELSE NewTask(t, "menu_step", u, "upd_read",
                    [EmptyData EXCEPT !.has = {"menu_idx"},
                                      !.menu_idx = menu_cursor(data.menu_idx, step, Len(menu))],
                    NULL)]
    /\ UNCHANGED <<fsm_states, sheet_menu, sheet_orders, sheet_clients, sheet_overorders,
                   runs, last_event, clock, stock0, card, call>>

\* cb_show_menu_again up to sheets_get_menu: fsm.set_state(uid, "menu")
StartShowAgain(t, u) ==
    /\ FreeTask(t)
    /\ fsm_states' = set_state(fsm_states, u, "menu")
    /\ tasks' = [tasks EXCEPT ![t] = NewTask(t, "show_menu_again", u, "get_menu", EmptyData, NULL)]
    /\ UNCHANGED <<sheet_menu, sheet_orders, sheet_clients, sheet_overorders,
                   runs, last_event, clock, stock0, card, call>>

\* cb_choose_address / cb_choose_time up to update_data
StartChoice(t, u, key, value) ==
    /\ FreeTask(t)
    /\ tasks' = [tasks EXCEPT ![t] =
            IF key = "chosen_address"
            THEN NewTask(t, "addr", u, "upd_read",
                    [EmptyData EXCEPT !.has = {"chosen_address"}, !.chosen_address = value],
                    "choose_time")
            ELSE NewTask(t, "time", u, "upd_read",
                    [EmptyData EXCEPT !.has = {"chosen_time"}, !.chosen_time = value],
                    "choose_qty")]
    /\ UNCHANGED <<fsm_states, sheet_menu, sheet_orders, sheet_clients, sheet_overorders,
                   runs, last_event, clock, stock0, card, call>>

\* cb_show_menu_again: sheets_get_menu(now_msk_str())
TaskGetMenu(t) ==
    /\ tasks[t].pc = "get_menu"
    /\ tasks' = [tasks EXCEPT ![t] =
            [@ EXCEPT !.pc = "upd_read",
                      !.partial = [EmptyData EXCEPT
                            !.has = {"menu", "menu_idx"},
                            !.menu = get_menu_for_day(sheet_menu, now_msk_str(clock), clock),
                            !.menu_idx = 0]]]
    /\ UNCHANGED <<fsm_states, sheet_menu, sheet_orders, sheet_clients, sheet_overorders,
                   runs, last_event, clock, stock0, card, call>>

\* update_data: data = await self.get_data(user_id); data.update(kwargs)
TaskRead(t) ==
    /\ tasks[t].pc = "upd_read"
    /\ tasks' = [tasks EXCEPT ![t] =
            [@ EXCEPT !.pc = "upd_write",
                      !.data = merge(get_data(fsm_states, tasks[t].uid), tasks[t].partial)]]
    /\ UNCHANGED <<fsm_states, sheet_menu, sheet_orders, sheet_clients, sheet_overorders,
                   runs, last_event, clock, stock0, card, call>>

\* update_data: the INSERT ... ON CONFLICT DO UPDATE SET data of the object
TaskWrite(t) ==
    /\ tasks[t].pc = "upd_write"
    /\ fsm_states' = put_data(fsm_states, tasks[t].uid, tasks[t].data)
    /\ tasks' = [tasks EXCEPT ![t] =
            [@ EXCEPT !.pc = IF tasks[t].next_state = NULL THEN "done" ELSE "set_state"]]
    /\ UNCHANGED <<sheet_menu, sheet_orders, sheet_clients, sheet_overorders,
                   runs, last_event, clock, stock0, card, call>>

\* cb_choose_address / cb_choose_time: fsm.set_state after the update
TaskSetState(t) ==
    /\ tasks[t].pc = "set_state"
    /\ fsm_states' = set_state(fsm_states, tasks[t].uid, tasks[t].next_state)
    /\ tasks' = [tasks EXCEPT ![t] = [@ EXCEPT !.pc = "done"]]
    /\ UNCHANGED <<sheet_menu, sheet_orders, sheet_clients, sheet_overorders,
                   runs, last_event, clock, stock0, card, call>>

TaskStep(t) ==
    \/ TaskGetMenu(t)
    \/ TaskRead(t)
    \/ TaskWrite(t)
    \/ TaskSetState(t)

----------------------------------------------------------------------------
(* The card of a chat: the render paths, one action per transport call *)

CardKinds == {"plain", "photo"}

\* the render paths: show_menu_item from a callback, edit_to_text,
\* _show_confirm, the edit-or-resend of cb_choose_address / cb_choose_time /
\* cb_addr_custom, of cb_back (addr, time), of cb_back (qty), and the
\* delete-and-send of cb_choose_tariff
RenderPaths == {"show_menu_item", "edit_to_text", "_show_confirm", "cb_choose_address",
                "cb_back", "cb_back_qty", "cb_choose_tariff"}

\* no render in hand
NoCard ==
    [pc |-> "idle", path |-> NULL, existing |-> NULL, want |-> NULL, same |-> FALSE,
     live |-> {}, calls |-> <<>>]

\* the message the callback came from; cur: it shows the step to render
Existing(kind, cur) == [id |-> 1, kind |-> kind, cur |-> cur]

\* a message sent by the render
Sent(kind) == [id |-> 2, kind |-> kind, cur |-> TRUE]

\* show_menu_item from a callback: the first call, by the kind of the existing
\* message and the kind the dish demands
menu_card_action_mut(existing, want) ==
    IF want = "photo"
    THEN IF existing = "photo" THEN "edit_media_url" ELSE "delete"
    ELSE "edit_text"
menu_card_action(existing, want) ==
    IF want = "photo"
    THEN IF existing = "photo" THEN "edit_media_url" ELSE "delete"
    ELSE IF existing = "photo" THEN "delete" ELSE "edit_text"

\* the first transport call of a render path
first_step(path, existing, want) ==
    CASE path = "show_menu_item" -> menu_card_action(existing, want)
      [] path = "edit_to_text" -> IF existing = "photo" THEN "delete" ELSE "edit_text"
      [] path = "cb_back" -> IF existing = "photo" THEN "edit_caption" ELSE "edit_text"
      [] path = "cb_choose_tariff" -> "delete"
      [] OTHER -> "edit_text"

\* a handler starts to render a step onto the message its callback came from
RenderStart ==
    /\ card.pc = "idle"
    /\ \E path \in RenderPaths, existing \in CardKinds, want \in CardKinds, same \in BOOLEAN :
        /\ path # "show_menu_item" => want = "plain"
        /\ same => (existing = want \/ path = "cb_back")
        /\ card' = [pc |-> first_step(path, existing, want), path |-> path,
                    existing |-> existing, want |-> want, same |-> same,
                    live |-> {Existing(existing, same)}, calls |-> <<>>]
    /\ UNCHANGED <<fsm_states, sheet_menu, sheet_orders, sheet_clients, sheet_overorders, runs, last_event, clock, stock0, call, tasks>>

\* the render after a transport call: the call is logged, the live messages
\* and the next call are set
Called(op, res, live, pc) ==
    /\ card' = [card EXCEPT !.calls = Append(@, [op |-> op, res |-> res]), !.live = live, !.pc = pc]
    /\ UNCHANGED <<fsm_states, sheet_menu, sheet_orders, sheet_clients, sheet_overorders, runs, last_event, clock, stock0, call, tasks>>

\* the existing message edited in place to a message of the kind
edited(kind) == {IF m.id = 1 THEN [m EXCEPT !.kind = kind, !.cur = TRUE] ELSE m : m \in card.live}

\* what the transport may answer to an edit of text or caption: a message that
\* already shows the content is "not modified", a photo has no text to edit
edit_outcomes(kind) ==
    (IF card.existing # kind THEN {} ELSE IF card.same THEN {"not_modified"} ELSE {"ok"})
        \cup {"bad_request", "error"}

\* where a render path goes on when the edit raised TelegramBadRequest
after_rejected_edit(path, res) ==
    CASE path = "show_menu_item" -> IF res = "not_modified" THEN "done" ELSE "send_text"
      [] path \in {"_show_confirm", "cb_back_qty"} -> "send_text"
      [] OTHER -> "delete"

\* where a render path goes on after an edit: only TelegramBadRequest is caught
after_edit(path, res) ==
    CASE res = "ok" -> "done"
      [] res = "error" -> "raised"
      [] OTHER -> after_rejected_edit(path, res)

\* msg.edit_text
EditText ==
    /\ card.pc = "edit_text"
    /\ \E res \in edit_outcomes("plain") :
        Called("edit_text", res, IF res = "ok" THEN edited("plain") ELSE card.live,
               after_edit(card.path, res))

\* msg.edit_caption
EditCaption ==
    /\ card.pc = "edit_caption"
    /\ \E res \in edit_outcomes("photo") :
        Called("edit_caption", res, IF res = "ok" THEN edited("photo") ELSE card.live,
               after_edit(card.path, res))

\* bot.delete_message in try/except Exception: what follows does not depend on
\* the outcome
after_delete(path, want) ==
    IF path = "show_menu_item" /\ want = "photo" THEN "send_photo_url" ELSE "send_text"

DeleteMessage ==
    /\ card.pc = "delete"
    /\ \E res \in {"ok", "failed"} :
        Called("delete", res, IF res = "ok" THEN {m \in card.live : m.id # 1} ELSE card.live,
               after_delete(card.path, card.want))

\* bot.send_message / msg.answer of the card text: an exception leaves the handler
SendText ==
    /\ card.pc = "send_text"
    /\ \E res \in {"ok", "error"} :
        Called("send_text", res, IF res = "ok" THEN card.live \cup {Sent("plain")} ELSE card.live,
               IF res = "ok" THEN "done" ELSE "raised")

\* _edit_media_smart: the tier after an attempt, by reference first, then the
\* fetched bytes; False when both failed
after_edit_media(op, res) ==
    CASE res = "ok" -> "done"
      [] op = "edit_media_url" -> "fetch_edit"
      [] op = "fetch_edit" /\ res = "data" -> "edit_media_bytes"
      [] OTHER -> "delete"

\* _edit_media_smart: msg.edit_media by URL
EditMediaUrl ==
    /\ card.pc = "edit_media_url"
    /\ \E res \in {"ok", "bad_request", "error"} :
        Called("edit_media_url", res, IF res = "ok" THEN edited("photo") ELSE card.live,
               after_edit_media("edit_media_url", res))

\* _edit_media_smart: fetch_bytes
FetchForEdit ==
    /\ card.pc = "fetch_edit"
    /\ \E res \in {"data", "none"} :
        Called("fetch_edit", res, card.live, after_edit_media("fetch_edit", res))

\* _edit_media_smart: msg.edit_media with the bytes
EditMediaBytes ==
    /\ card.pc = "edit_media_bytes"
    /\ \E res \in {"ok", "error"} :
        Called("edit_media_bytes", res, IF res = "ok" THEN edited("photo") ELSE card.live,
               after_edit_media("edit_media_bytes", res))

\* _safe_send_photo_or_text: the tier after an attempt, by reference first,
\* then the fetched bytes, then the text
after_send_photo_mut(op, res) ==
    CASE res = "ok" -> "done"
      [] op = "send_photo_url" -> "send_fallback"
      [] op = "fetch_send" /\ res = "data" -> "send_photo_bytes"
      [] OTHER -> "send_fallback"
after_send_photo(op, res) ==
    CASE res = "ok" -> "done"
      [] op = "send_photo_url" -> "fetch_send"
      [] op = "fetch_send" /\ res = "data" -> "send_photo_bytes"
      [] OTHER -> "send_fallback"

\* _safe_send_photo_or_text: bot.send_photo by URL
SendPhotoUrl ==
    /\ card.pc = "send_photo_url"
    /\ \E res \in {"ok", "bad_request", "error"} :
        Called("send_photo_url", res, IF res = "ok" THEN card.live \cup {Sent("photo")} ELSE card.live,
               after_send_photo("send_photo_url", res))

\* _safe_send_photo_or_text: fetch_bytes
FetchForSend ==
    /\ card.pc = "fetch_send"
    /\ \E res \in {"data", "none"} :
        Called("fetch_send", res, card.live, after_send_photo("fetch_send", res))

\* _safe_send_photo_or_text: bot.send_photo with the bytes
SendPhotoBytes ==
    /\ card.pc = "send_photo_bytes"
    /\ \E res \in {"ok", "error"} :
        Called("send_photo_bytes", res, IF res = "ok" THEN card.live \cup {Sent("photo")} ELSE card.live,
               after_send_photo("send_photo_bytes", res))

\* _safe_send_photo_or_text: bot.send_message with the note that the photo is
\* unavailable; an exception leaves the handler
SendFallback ==
    /\ card.pc = "send_fallback"
    /\ \E res \in {"ok", "error"} :
        Called("send_fallback", res, IF res = "ok" THEN card.live \cup {Sent("plain")} ELSE card.live,
               IF res = "ok" THEN "done" ELSE "raised")

----------------------------------------------------------------------------
(* Spec: the commit runs of two users interleaved at every await *)

DayCell(fmt, date) == [fmt |-> fmt, date |-> date]

MenuRow(day, dish, photo, qty) == [day |-> day, dish |-> dish, photo |-> photo, qty |-> qty]

ClientRow(u) == [telegram_id |-> u, name |-> "Ivan Ivanov", phone |-> "+79261234567"]

\* a session that went through tariff, address, time and quantity
SessionAt(state, menu, idx, tariff, qty) ==
    [exists |-> TRUE, state |-> state,
     data |-> [EmptyData EXCEPT
        !.has = {"username", "menu", "menu_idx", "chosen_dish", "chosen_tariff",
                 "chosen_address", "chosen_time", "qty"},
        !.username = "user", !.menu = menu, !.menu_idx = idx,
        !.chosen_dish = strip(menu[idx + 1].dish), !.chosen_tariff = tariff,
        !.chosen_address = "Celsius", !.chosen_time = "12-13", !.qty = qty]]

NoEvent == [kind |-> "none", uid |-> NULL, arg |-> NULL, tick |-> 0]

Init ==
    /\ clock = "day"
    /\ \E q1 \in {1, MaxStock} :
        sheet_menu = << MenuRow(DayCell("dmy", Yesterday), "Plov", "", MaxStock),
                        MenuRow(DayCell("dmy", TodayLocal), "Plov", "", q1),
                        MenuRow(DayCell("iso", TodayLocal), "Set", "", 1) >>
    /\ sheet_orders = <<>>
    /\ sheet_overorders = <<>>
    /\ sheet_clients \in { <<ClientRow("u1"), ClientRow("u2")>>, <<ClientRow("u1")>> }
    /\ \E n2 \in 1..2 :
        LET menu == get_menu_for_day(sheet_menu, now_msk_str(clock), clock) IN
        fsm_states = [u \in Users |->
            IF u = "u1" THEN SessionAt("choose_qty", menu, 0, "Maximum", 1)
                        ELSE SessionAt("choose_qty", menu, 0, "Standard (+soup)", n2)]
    /\ runs = [r \in RunIds |-> IdleRun]
    /\ last_event = NoEvent
    /\ stock0 = quantities(sheet_menu)
    /\ card = NoCard
    /\ call = NoCall
    /\ tasks = NoTasks

Next ==
    \/ \E u \in Users : Press(u, "cash")
    \/ \E r \in RunIds : RunStep(r)

Spec == Init /\ [][Next]_vars

----------------------------------------------------------------------------
(* SpecFlow: the conversation of one user, one handler at a time *)

FlowTexts == {"Al Bo", "89261234567", "3", "0"}
FlowContacts == {"89261234567", "0"}
FlowTariffs == {"standard_salad"}
FlowAddresses == {"Celsius"}
FlowSlots == {"12-13"}

StartSheet(q1, q2) ==
    << MenuRow(DayCell("dmy", Yesterday), "Plov", "", MaxStock),
       MenuRow(DayCell("dmy", TodayLocal), "Plov", "", q1),
       MenuRow(DayCell("iso", TodayLocal), "Set", "", q2) >>

InitFlow ==
    /\ clock = "day"
    /\ sheet_menu = StartSheet(MaxStock, 0)
    /\ sheet_orders = <<>>
    /\ sheet_overorders = <<>>
    /\ sheet_clients \in { <<>>, <<ClientRow("u1")>> }
    /\ fsm_states = [u \in Users |-> NoRow]
    /\ runs = [r \in RunIds |-> IdleRun]
    /\ last_event = NoEvent
    /\ stock0 = quantities(sheet_menu)
    /\ card = NoCard
    /\ call = NoCall
    /\ tasks = NoTasks

NextFlow ==
    \/ cmd_start("u1")
    \/ cmd_menu("u1")
    \/ cmd_support("u1")
    \/ \E text \in FlowTexts : text_handler("u1", text)
    \/ \E phone_raw \in FlowContacts : contact_handler("u1", phone_raw)
    \/ \E step \in {-1, 1} : cb_menu_step("u1", step)
    \/ \E code \in FlowTariffs : cb_choose_tariff("u1", code)
    \/ \E address \in FlowAddresses : cb_choose_address("u1", address)
    \/ cb_addr_custom("u1")
    \/ \E timeslot \in FlowSlots : cb_choose_time("u1", timeslot)
    \/ \E choice \in QtyChoices : cb_choose_qty("u1", choice)
    \/ \E target \in BackTargets : cb_back("u1", target)
    \/ cb_show_menu_again("u1")

SpecFlow == InitFlow /\ [][NextFlow]_vars

----------------------------------------------------------------------------
(* SpecSeq: one user orders, one handler at a time; the sheet calls of the   *)
(* commit run may raise                                                      *)

InitSeq ==
    /\ clock = "day"
    /\ \E q1 \in {1, MaxStock} : sheet_menu = StartSheet(q1, 1)
    /\ sheet_orders = <<>>
    /\ sheet_overorders = <<>>
    /\ sheet_clients \in { <<>>, <<ClientRow("u1")>> }
    /\ fsm_states = [u \in Users |-> NoRow]
    /\ runs = [r \in RunIds |-> IdleRun]
    /\ last_event = NoEvent
    /\ stock0 = quantities(sheet_menu)
    /\ card = NoCard
    /\ call = NoCall
    /\ tasks = NoTasks

\* the user presses the buttons of the card on screen, one handler at a time;
\* the confirm buttons of an earlier card stay in the chat and can be pressed
\* whatever the session state
OnScreen(u, state) == NoActiveRun /\ get_state(fsm_states, u) = state

NextSeq ==
    \/ NoActiveRun /\ cmd_menu("u1")
    \/ OnScreen("u1", "menu") /\ cb_choose_tariff("u1", "max")
    \/ OnScreen("u1", "choose_address") /\ cb_choose_address("u1", "Celsius")
    \/ OnScreen("u1", "choose_time") /\ cb_choose_time("u1", "12-13")
    \/ OnScreen("u1", "choose_qty") /\ \E choice \in {"1", "2"} : cb_choose_qty("u1", choice)
    \/ \E label \in PaymentLabels : PressSeq("u1", label)
    \/ \E r \in RunIds : RunStep(r)
    \/ \E r \in RunIds : Raise(r)

SpecSeq == InitSeq /\ [][NextSeq]_vars

----------------------------------------------------------------------------
(* SpecReserve: reserve_portions_for_today alone, on every small menu sheet *)

RowDays == {DayCell("dmy", TodayLocal), DayCell("iso", TodayLocal),
            DayCell("isodt", TodayLocal), DayCell("dmy", Yesterday)}
RowDishes == {"Plov", " plov ", "Set"}
AskedDishes == {"Plov", "Set", "Soup", NULL}

\* the dish a text names, whatever its case and the blanks around it
DishKey(t) ==
    CASE t \in {"Plov", "plov", " Plov ", " plov "} -> "plov"
      [] t \in {"Soup", "soup"} -> "soup"
      [] t = "Set" -> "set"
      [] OTHER -> "none"

\* the row is the row of the dish on today's date
IsRowOf(row, dish) == row.day.date = TodayLocal /\ DishKey(row.dish) = DishKey(dish)

InitReserve ==
    /\ clock = "day"
    /\ \E d1 \in RowDays, d2 \in RowDays, t1 \in RowDishes, t2 \in RowDishes,
          q1 \in 0..MaxStock, q2 \in 0..MaxStock :
        /\ ~(d1.date = d2.date /\ DishKey(t1) = DishKey(t2))
        /\ sheet_menu = << MenuRow(d1, t1, "", q1), MenuRow(d2, t2, "", q2) >>
    /\ sheet_orders = <<>>
    /\ sheet_overorders = <<>>
    /\ sheet_clients = <<ClientRow("u1")>>
    /\ fsm_states = [u \in Users |-> NoRow]
    /\ \E dish \in AskedDishes, qty \in 1..(MaxStock + 1) :
        runs = [r \in RunIds |->
            IF r = 1
            THEN [IdleRun EXCEPT !.pc = "reserve_find", !.uid = "u1", !.label = "cash",
                                 !.dish = dish, !.qty = qty, !.q0 = quantities(sheet_menu)]
            ELSE IdleRun]
    /\ last_event = NoEvent
    /\ stock0 = quantities(sheet_menu)
    /\ card = NoCard
    /\ call = NoCall
    /\ tasks = NoTasks

NextReserve ==
    \/ ReserveFind(1)
    \/ ReserveRead(1)
    \/ ReserveWrite(1)

SpecReserve == InitReserve /\ [][NextReserve]_vars


----------------------------------------------------------------------------
(* SpecLedger: release_portions_for_today alone, and after a successful      *)
(* reserve of the same dish and quantity, on every small menu sheet          *)

\* a release called on its own: the coroutine is at the first await of
\* release_portions_for_today
ReleaseAlone(dish, qty) ==
    [IdleRun EXCEPT !.pc = "rel_find", !.uid = "u1", !.label = "cash",
                    !.dish = dish, !.qty = qty, !.q0 = quantities(sheet_menu),
                    !.after = "alone", !.releases = 1, !.rel_dish = dish, !.rel_qty = qty]

\* a confirm of a user without a client row: _finalize_order calls reserve
\* and, when it succeeded, release with the same dish and quantity
ReserveThenRelease(dish, qty) ==
    [IdleRun EXCEPT !.pc = "reserve_find", !.uid = "u1", !.label = "cash",
                    !.dish = dish, !.qty = qty, !.q0 = quantities(sheet_menu)]

InitLedger ==
    /\ clock = "day"
    /\ \E d1 \in RowDays, d2 \in RowDays, t1 \in RowDishes, t2 \in RowDishes,
          q1 \in 0..MaxStock, q2 \in 0..MaxStock :
        /\ ~(d1.date = d2.date /\ DishKey(t1) = DishKey(t2))
        /\ sheet_menu = << MenuRow(d1, t1, "", q1), MenuRow(d2, t2, "", q2) >>
    /\ sheet_orders = <<>>
    /\ sheet_overorders = <<>>
    /\ sheet_clients = <<>>
    /\ fsm_states = [u \in Users |-> NoRow]
    /\ \E dish \in AskedDishes, qty \in 1..(MaxStock + 1), alone \in BOOLEAN :
        runs = [r \in RunIds |->
            IF r # 1 THEN IdleRun
            ELSE IF alone THEN ReleaseAlone(dish, qty) ELSE ReserveThenRelease(dish, qty)]
    /\ last_event = NoEvent
    /\ stock0 = quantities(sheet_menu)
    /\ card = NoCard
    /\ call = NoCall
    /\ tasks = NoTasks

NextLedger ==
    \/ ReserveFind(1)
    \/ ReserveRead(1)
    \/ ReserveWrite(1)
    \/ FindClient(1)
    \/ RelFind(1)
    \/ RelRead(1)
    \/ RelWrite(1)

SpecLedger == InitLedger /\ [][NextLedger]_vars

----------------------------------------------------------------------------
(* SpecFind: find_menu_row_by_day_and_dish alone, on every two-row sheet and  *)
(* every wanted day and dish                                                  *)

DishTexts == {"Plov", "plov", " Plov ", " plov ", "Set", "Soup"}

\* the day cells of the rows: yesterday and today, in every format
FindDays == {d \in DayValues : d.date # Tomorrow}

\* ws.get_all_values() and the search of the row, as one call
FindRow(day_name, dish_name) ==
    /\ call' = [fn |-> "find", day_name |-> day_name, dish_name |-> dish_name,
                row |-> find_menu_row_by_day_and_dish(sheet_menu, day_name, dish_name, clock)]
    /\ UNCHANGED <<fsm_states, sheet_menu, sheet_orders, sheet_clients, sheet_overorders,
                   runs, last_event, clock, stock0, card, tasks>>

InitFind ==
    /\ clock = "day"
    /\ \E d1 \in FindDays, d2 \in FindDays, t1 \in RowDishes, t2 \in RowDishes :
        sheet_menu = << MenuRow(d1, t1, "", 1), MenuRow(d2, t2, "", 1) >>
    /\ sheet_orders = <<>>
    /\ sheet_overorders = <<>>
    /\ sheet_clients = <<>>
    /\ fsm_states = [u \in Users |-> NoRow]
    /\ runs = [r \in RunIds |-> IdleRun]
    /\ last_event = NoEvent
    /\ stock0 = quantities(sheet_menu)
    /\ card = NoCard
    /\ call = NoCall
    /\ tasks = NoTasks

NextFind ==
    \E day_name \in DayValues, dish_name \in DishTexts \cup {NULL} : FindRow(day_name, dish_name)

SpecFind == InitFind /\ [][NextFind]_vars

----------------------------------------------------------------------------
(* SpecPhone: normalize_phone alone, on texts made of a prefix, digits, a     *)
(* separator and more digits                                                  *)

PhoneDigits == <<"9", "2", "6", "1", "2", "3", "4", "5", "6", "7", "0">>
PhonePrefixes == {<<>>, <<"+">>, <<"8">>, <<"+", "7">>, <<"(">>, <<" ", "8">>}
PhoneSeparators == {<<>>, <<" ">>, <<"-">>, <<"+">>}
PhoneTexts ==
    { pre \o SubSeq(PhoneDigits, 1, n) \o sep \o SubSeq(PhoneDigits, 1, m) :
        pre \in PhonePrefixes, n \in 0..Len(PhoneDigits), sep \in PhoneSeparators, m \in 0..2 }

\* one call of normalize_phone(text)
NormalizePhone(text) ==
    /\ call' = [fn |-> "normalize_phone", text |-> text, result |-> phone_chars(text)]
    /\ UNCHANGED <<fsm_states, sheet_menu, sheet_orders, sheet_clients, sheet_overorders,
                   runs, last_event, clock, stock0, card, tasks>>

InitPhone ==
    /\ clock = "day"
    /\ sheet_menu = <<>>
    /\ sheet_orders = <<>>
    /\ sheet_overorders = <<>>
    /\ sheet_clients = <<>>
    /\ fsm_states = [u \in Users |-> NoRow]
    /\ runs = [r \in RunIds |-> IdleRun]
    /\ last_event = NoEvent
    /\ stock0 = <<>>
    /\ card = NoCard
    /\ call = NoCall
    /\ tasks = NoTasks

NextPhone == \E text \in PhoneTexts : NormalizePhone(text)

SpecPhone == InitPhone /\ [][NextPhone]_vars

----------------------------------------------------------------------------
(* SpecCells: get_menu_for_day and find_menu_row_by_day_and_dish alone, on   *)
(* two-row sheets whose day cells hold a date or none                        *)

CellDays == {DayCell("dmy", TodayLocal), DayCell("iso", Yesterday)} \cup BlankCells

\* ws.get_all_values() and the rows of the day, as one call
GetMenu(day_name) ==
    /\ call' = [fn |-> "get_menu", day_name |-> day_name,
                rows |-> get_menu_for_day(sheet_menu, day_name, clock)]
    /\ UNCHANGED <<fsm_states, sheet_menu, sheet_orders, sheet_clients, sheet_overorders,
                   runs, last_event, clock, stock0, card, tasks>>

InitCells ==
    /\ clock = "day"
    /\ \E d1 \in CellDays, d2 \in CellDays, t1 \in {"Plov", "Set"}, t2 \in {"Plov", "Set"} :
        sheet_menu = << MenuRow(d1, t1, "", 1), MenuRow(d2, t2, "", 1) >>
    /\ sheet_orders = <<>>
    /\ sheet_overorders = <<>>
    /\ sheet_clients = <<>>
    /\ fsm_states = [u \in Users |-> NoRow]
    /\ runs = [r \in RunIds |-> IdleRun]
    /\ last_event = NoEvent
    /\ stock0 = quantities(sheet_menu)
    /\ card = NoCard
    /\ call = NoCall
    /\ tasks = NoTasks

NextCells ==
    \/ \E day_name \in DayValues : GetMenu(day_name)
    \/ \E day_name \in DayValues, dish_name \in {"Plov", "Set", "Soup"} : FindRow(day_name, dish_name)

SpecCells == InitCells /\ [][NextCells]_vars

----------------------------------------------------------------------------
(* SpecDay: one registered user orders, one handler at a time, in the day or *)
(* in the last three hours of the local day, on a sheet with the rows of     *)
(* today and of tomorrow                                                     *)

DaySheets ==
    { << MenuRow(DayCell("dmy", TodayLocal), "Plov", "", q1),
         MenuRow(DayCell("dmy", Tomorrow), "Set", "", q2),
         MenuRow(DayCell("iso", Tomorrow), "Plov", "", q3) >> :
        q1 \in 0..MaxStock, q2 \in 0..MaxStock, q3 \in 0..MaxStock }

InitDay ==
    /\ clock \in {"day", "late"}
    /\ sheet_menu \in DaySheets
    /\ sheet_orders = <<>>
    /\ sheet_overorders = <<>>
    /\ sheet_clients \in { <<>>, <<ClientRow("u1")>> }
    /\ fsm_states = [u \in Users |-> NoRow]
    /\ runs = [r \in RunIds |-> IdleRun]
    /\ last_event = NoEvent
    /\ stock0 = quantities(sheet_menu)
    /\ card = NoCard
    /\ call = NoCall
    /\ tasks = NoTasks

NextDay ==
    \/ NoActiveRun /\ cmd_menu("u1")
    \/ OnScreen("u1", "menu") /\ cb_menu_step("u1", 1)
    \/ OnScreen("u1", "menu") /\ cb_choose_tariff("u1", "max")
    \/ OnScreen("u1", "choose_address") /\ cb_choose_address("u1", "Celsius")
    \/ OnScreen("u1", "choose_time") /\ cb_choose_time("u1", "12-13")
    \/ OnScreen("u1", "choose_qty") /\ cb_choose_qty("u1", "1")
    \/ OnScreen("u1", "choose_qty") /\ FreeRun(1) /\ PressSeq("u1", "cash")
    \/ \E r \in RunIds : RunStep(r)

SpecDay == InitDay /\ [][NextDay]_vars

----------------------------------------------------------------------------
(* SpecCard: one render of a step onto an existing card, every outcome of   *)
(* every transport call                                                     *)

InitCard ==
    /\ clock = "day"
    /\ sheet_menu = StartSheet(MaxStock, 1)
    /\ sheet_orders = <<>>
    /\ sheet_overorders = <<>>
    /\ sheet_clients = <<ClientRow("u1")>>
    /\ fsm_states = [u \in Users |-> NoRow]
    /\ runs = [r \in RunIds |-> IdleRun]
    /\ last_event = NoEvent
    /\ stock0 = quantities(sheet_menu)
    /\ card = NoCard
    /\ call = NoCall
    /\ tasks = NoTasks

NextCard ==
    \/ RenderStart
    \/ EditText
    \/ EditCaption
    \/ EditMediaUrl
    \/ FetchForEdit
    \/ EditMediaBytes
    \/ DeleteMessage
    \/ SendText
    \/ SendPhotoUrl
    \/ FetchForSend
    \/ SendPhotoBytes
    \/ SendFallback

SpecCard == InitCard /\ [][NextCard]_vars

----------------------------------------------------------------------------
(* SpecMenu: the menu card of one user: the cursor, the tariff buttons and   *)
(* the wall clock, on menus of one to three dishes                           *)

MenuSheets ==
    { << MenuRow(DayCell("dmy", Yesterday), "Plov", "", MaxStock),
         MenuRow(DayCell("dmy", TodayLocal), "Plov", "", q1) >> : q1 \in {0, MaxStock} }
    \cup
    { << MenuRow(DayCell("dmy", Yesterday), "Plov", "", MaxStock),
         MenuRow(DayCell("dmy", TodayLocal), "Plov", "", q1),
         MenuRow(DayCell("iso", TodayLocal), "Set", "", q2) >> : q1 \in {0, MaxStock}, q2 \in {0, MaxStock} }
    \cup
    { << MenuRow(DayCell("dmy", Yesterday), "Plov", "", MaxStock),
         MenuRow(DayCell("dmy", TodayLocal), "Plov", "", q1),
         MenuRow(DayCell("iso", TodayLocal), "Set", "", MaxStock),
         MenuRow(DayCell("isodt", TodayLocal), "Soup", "", q3) >> : q1 \in {0, MaxStock}, q3 \in {0, MaxStock} }

InitMenu ==
    /\ clock = "day"
    /\ sheet_menu \in MenuSheets
    /\ sheet_orders = <<>>
    /\ sheet_overorders = <<>>
    /\ sheet_clients \in { <<>>, <<ClientRow("u1")>> }
    /\ fsm_states = [u \in Users |-> NoRow]
    /\ runs = [r \in RunIds |-> IdleRun]
    /\ last_event = NoEvent
    /\ stock0 = quantities(sheet_menu)
    /\ card = NoCard
    /\ call = NoCall
    /\ tasks = NoTasks

\* the wall clock enters the last three hours of the local day: now_msk_str
\* gives the next calendar date from then on
Tick ==
    /\ clock = "day"
    /\ clock' = "late"
    /\ UNCHANGED <<fsm_states, sheet_menu, sheet_orders, sheet_clients, sheet_overorders, runs, last_event, stock0, card, call, tasks>>

NextMenu ==
    \/ cmd_menu("u1")
    \/ \E step \in {-1, 1} : cb_menu_step("u1", step)
    \/ \E code \in {"max", "standard_soup"} : cb_choose_tariff("u1", code)
    \/ cb_back("u1", "menu")
    \/ Tick

SpecMenu == InitMenu /\ [][NextMenu]_vars

----------------------------------------------------------------------------
(* SpecRace: two events of one user handled at the same time, after /menu;   *)
(* the wall clock may enter the last three hours of the day                  *)

RaceSheets ==
    { StartSheet(1, 1) \o << MenuRow(DayCell("dmy", Tomorrow), "Soup", "", 1) >>,
      StartSheet(1, 1) \o << MenuRow(DayCell("iso", TodayLocal), "Soup", "", 1) >> }

InitRace ==
    /\ clock = "day"
    /\ sheet_menu \in RaceSheets
    /\ sheet_orders = <<>>
    /\ sheet_overorders = <<>>
    /\ sheet_clients = <<ClientRow("u1")>>
    /\ fsm_states = [u \in Users |-> NoRow]
    /\ runs = [r \in RunIds |-> IdleRun]
    /\ last_event = NoEvent
    /\ stock0 = quantities(sheet_menu)
    /\ card = NoCard
    /\ call = NoCall
    /\ tasks = NoTasks

NoTaskStarted == \A t \in TaskIds : tasks[t].pc = "idle"

NextRace ==
    \/ NoTaskStarted /\ cmd_menu("u1")
    \/ NoTaskStarted /\ cb_menu_step("u1", 1)
    \/ \E t \in TaskIds, step \in {-1, 1} : StartMenuStep(t, "u1", step)
    \/ \E t \in TaskIds : StartShowAgain(t, "u1")
    \/ \E t \in TaskIds : StartChoice(t, "u1", "chosen_address", "Celsius")
    \/ \E t \in TaskIds : StartChoice(t, "u1", "chosen_time", "12-13")
    \/ \E t \in TaskIds : TaskStep(t)
    \/ Tick

SpecRace == InitRace /\ [][NextRace]_vars

----------------------------------------------------------------------------
(* SpecUsers: a customer and the operator talk to the bot, one handler at a  *)
(* time: the customer places one order, the operator registers, asks for     *)
(* support and answers it                                                    *)

InitUsers ==
    /\ clock = "day"
    /\ sheet_menu = StartSheet(1, 0)
    /\ sheet_orders = <<>>
    /\ sheet_overorders = <<>>
    /\ sheet_clients \in { <<>>, <<ClientRow("u1")>> }
    /\ fsm_states = [u \in Users |-> NoRow]
    /\ runs = [r \in RunIds |-> IdleRun]
    /\ last_event = NoEvent
    /\ stock0 = quantities(sheet_menu)
    /\ card = NoCard
    /\ call = NoCall
    /\ tasks = NoTasks

\* the states in which text_handler writes when it gets a name-like text
TextStates == {"awaiting_support_message", "awaiting_support_reply", "awaiting_name",
               "awaiting_custom_address"}

\* the events of the operator: /start, /support and the reply button at any
\* time, a text or a contact when the bot asked for one
OperatorEvent(u) ==
    \/ NoActiveRun /\ cmd_start(u)
    \/ NoActiveRun /\ cmd_support(u)
    \/ NoActiveRun /\ \E target_user_id \in Users \ {u} : cb_support_reply(u, target_user_id)
    \/ \E state \in TextStates : OnScreen(u, state) /\ text_handler(u, "Al Bo")
    \/ OnScreen(u, "awaiting_phone") /\ contact_handler(u, "89261234567")

\* the events of the customer: /menu and the buttons of the card on screen,
\* one order
CustomerEvent(u) ==
    \/ NoActiveRun /\ cmd_menu(u)
    \/ NoActiveRun /\ cmd_support(u)
    \/ OnScreen(u, "menu") /\ cb_menu_step(u, 1)
    \/ OnScreen(u, "menu") /\ cb_choose_tariff(u, "max")
    \/ OnScreen(u, "menu") /\ cb_show_menu_again(u)
    \/ OnScreen(u, "choose_address") /\ cb_choose_address(u, "Celsius")
    \/ OnScreen(u, "choose_address") /\ cb_addr_custom(u)
    \/ OnScreen(u, "awaiting_custom_address") /\ text_handler(u, "Al Bo")
    \/ OnScreen(u, "choose_time") /\ cb_choose_time(u, "12-13")
    \/ OnScreen(u, "choose_time") /\ cb_back(u, "addr")
    \/ OnScreen(u, "choose_qty") /\ \E choice \in {"1", "2"} : cb_choose_qty(u, choice)
    \/ OnScreen(u, "choose_qty") /\ FreeRun(1) /\ PressSeq(u, "cash")

NextUsers ==
    \/ OperatorEvent(ADMIN_CHAT_ID)
    \/ CustomerEvent("u1")
    \/ \E r \in RunIds : RunStep(r)

SpecUsers == InitUsers /\ [][NextUsers]_vars

----------------------------------------------------------------------------
(* SpecStore: the calls of FSMStorage alone, one at a time, on the rows of   *)
(* two users                                                                 *)

StoreStates == {NULL, "menu", "confirm"}

\* the keyword arguments of an update_data call, by the name of the call
StorePatches == {"name", "qty", "choice", "reset"}

patch(which) ==
    CASE which = "name" -> [EmptyData EXCEPT !.has = {"name"}, !.name = "Al Bo"]
      [] which = "qty" -> [EmptyData EXCEPT !.has = {"qty"}, !.qty = 2]
      [] which = "choice" ->
            [EmptyData EXCEPT !.has = {"chosen_dish", "chosen_time"},
                              !.chosen_dish = "Plov", !.chosen_time = "12-13"]
      [] OTHER -> [EmptyData EXCEPT !.has = {"chosen_dish", "chosen_address", "chosen_time"}]

\* a call of the store: the method, the user, the argument and the table
\* before the call
StoreCall(fn, u, arg) == [fn |-> fn, uid |-> u, arg |-> arg, before |-> fsm_states]

InitStore ==
    /\ clock = "day"
    /\ sheet_menu = StartSheet(MaxStock, 1)
    /\ sheet_orders = <<>>
    /\ sheet_overorders = <<>>
    /\ sheet_clients = <<>>
    /\ fsm_states = [u \in Users |-> NoRow]
    /\ runs = [r \in RunIds |-> IdleRun]
    /\ last_event = NoEvent
    /\ stock0 = quantities(sheet_menu)
    /\ card = NoCard
    /\ call = NoCall
    /\ tasks = NoTasks

\* fsm.set_state(user_id, state)
StoreSetState ==
    /\ \E u \in Users, state \in StoreStates :
        /\ fsm_states' = set_state(fsm_states, u, state)
        /\ call' = StoreCall("set_state", u, state)
    /\ UNCHANGED <<sheet_menu, sheet_orders, sheet_clients, sheet_overorders, runs, last_event, clock, stock0, card, tasks>>

\* fsm.update_data(user_id, **kwargs)
StoreUpdateData ==
    /\ \E u \in Users, which \in StorePatches :
        /\ fsm_states' = update_data(fsm_states, u, patch(which))
        /\ call' = StoreCall("update_data", u, which)
    /\ UNCHANGED <<sheet_menu, sheet_orders, sheet_clients, sheet_overorders, runs, last_event, clock, stock0, card, tasks>>

\* fsm.clear(user_id)
StoreClear ==
    /\ \E u \in Users :
        /\ fsm_states' = clear(fsm_states, u)
        /\ call' = StoreCall("clear", u, NULL)
    /\ UNCHANGED <<sheet_menu, sheet_orders, sheet_clients, sheet_overorders, runs, last_event, clock, stock0, card, tasks>>

NextStore ==
    \/ StoreSetState
    \/ StoreUpdateData
    \/ StoreClear

SpecStore == InitStore /\ [][NextStore]_vars

----------------------------------------------------------------------------
(* Properties of the commit protocol and of the conversation *)

\* the row of today's menu sheet the dish of a run names, 0 if none
row_of(dish) == find_menu_row_by_day_and_dish(sheet_menu, now_local_str(clock), dish, clock)

\* the run in hand of a one-handler-at-a-time behaviour has finished
Finished(r) == runs[r].q0 # <<>> /\ runs[r].pc \in {"done", "raised"}

\* C1: once a run of _finalize_order has finished, whatever its external steps
\* returned or raised, either an order record was appended and the quantity
\* of the row is lower by the ordered qty, or no order record was appended and
\* the quantities are what they were before the run.
C1_AllOrNothing ==
    \A r \in RunIds :
        Finished(r) =>
            \/ /\ runs[r].appended
               /\ row_of(runs[r].dish) # 0
               /\ quantities(sheet_menu) =
                    [runs[r].q0 EXCEPT ![row_of(runs[r].dish)] = @ - need_of(runs[r].qty)]
            \/ /\ ~runs[r].appended
               /\ quantities(sheet_menu) = runs[r].q0

\* the row of Plov on today's date in the sheets of Init
PlovRow == row_of("Plov")

\* runs of two users, each asking one portion of the same dish, no release called
RaceForLast(r1, r2) ==
    /\ r1 # r2
    /\ runs[r1].pc # "idle" /\ runs[r2].pc # "idle"
    /\ runs[r1].uid # runs[r2].uid
    /\ runs[r1].dish = runs[r2].dish
    /\ row_of(runs[r1].dish) = PlovRow
    /\ stock0[PlovRow] = 1
    /\ runs[r1].qty = 1 /\ runs[r2].qty = 1
    /\ \A r \in RunIds : runs[r].releases = 0

\* C2: when the confirm runs of two users interleave on a row whose quantity
\* is 1 and each asks 1, at most one reserve succeeds and at most one order
\* record is appended.
C2_AtMostOneWins ==
    \A r1, r2 \in RunIds :
        RaceForLast(r1, r2) =>
            /\ ~(runs[r1].reserved /\ runs[r2].reserved)
            /\ ~(runs[r1].appended /\ runs[r2].appended)

RECURSIVE ordered_qty(_, _)
\* the sum of the quantities of the order records appended for row i
ordered_qty(orders, i) ==
    IF orders = <<>> THEN 0
    ELSE (IF row_of(Head(orders).of_dish) = i THEN Head(orders).qty ELSE 0)
         + ordered_qty(Tail(orders), i)

\* C3: whenever no commit run is in progress, for each menu row the initial
\* quantity minus the current quantity is the sum of the quantities of the
\* order records appended for that row.
C3_LedgerMatchesOrders ==
    NoActiveRun =>
        \A i \in 1..Len(sheet_menu) :
            stock0[i] - sheet_menu[i].qty = ordered_qty(sheet_orders, i)

\* C4: under any interleaving of reserve and release, the quantity of a menu
\* row that starts at 0 or more is never written below 0.
C4_NeverNegative == \A i \in 1..Len(sheet_menu) : sheet_menu[i].qty >= 0

\* a reserve took the last portion while another run took and gave back its own
C4_Witness ==
    \E r1, r2 \in RunIds :
        /\ r1 # r2
        /\ runs[r1].reserved /\ runs[r2].reserved
        /\ runs[r2].releases = 1 /\ runs[r2].pc = "done"
        /\ sheet_menu[PlovRow].qty = 0

\* the rows of the sheet a reserve of the dish is about
rows_of(dish) == {i \in 1..Len(sheet_menu) : IsRowOf(sheet_menu[i], dish)}

\* reserve_portions_for_today has returned
ReserveReturned(r) == runs[r].pc \in {"fail_set_state", "find_client"}

\* C5: run alone, reserve(dish, qty) gives the reference result: no row of
\* today's date and the dish - failure, nothing written; the quantity q of the
\* row below qty - failure reporting q, nothing written; otherwise q - qty is
\* written to that row only and the call succeeds.
C5_ReserveReference ==
    ReserveReturned(1) =>
        LET q0 == runs[1].q0
            qty == runs[1].qty
            rows == rows_of(runs[1].dish)
        IN IF rows = {}
           THEN /\ ~runs[1].reserved
                /\ runs[1].err = "not_found"
                /\ quantities(sheet_menu) = q0
           ELSE \A i \in rows :
                IF q0[i] < qty
                THEN /\ ~runs[1].reserved
                     /\ runs[1].err = "insufficient"
                     /\ runs[1].avail = q0[i]
                     /\ quantities(sheet_menu) = q0
                ELSE /\ runs[1].reserved
                     /\ runs[1].err = NULL
                     /\ quantities(sheet_menu) = [q0 EXCEPT ![i] = q0[i] - qty]

\* a reserve of the second row, named in another case, succeeded and left a rest
C5_Witness ==
    /\ runs[1].pc = "find_client"
    /\ runs[1].reserved
    /\ rows_of(runs[1].dish) = {2}
    /\ sheet_menu[2].dish # runs[1].dish
    /\ sheet_menu[2].qty = runs[1].q0[2] - runs[1].qty
    /\ sheet_menu[2].qty > 0

\* C6: when the same user presses Confirm twice and the second press is
\* handled before the first run has finished, the two presses append at most
\* one order record and write the reserve decrement at most once.
C6_SecondTapAbsorbed ==
    \A r1, r2 \in RunIds :
        (r1 < r2 /\ runs[r2].pc # "idle" /\ runs[r1].uid = runs[r2].uid /\ runs[r2].overlapped) =>
            /\ ~(runs[r1].appended /\ runs[r2].appended)
            /\ ~(runs[r1].reserved /\ runs[r2].reserved)

\* C7: the commit protocol starts only when the session state of the pressing
\* user is "confirm"; a confirm event in any other state changes neither the
\* menu sheet nor the order records.
C7_OnlyFromConfirm ==
    \A r \in RunIds :
        (runs[r].q0 # <<>> /\ runs[r].state0 # "confirm") =>
            /\ ~runs[r].reserved
            /\ ~runs[r].appended
            /\ quantities(sheet_menu) = runs[r].q0

\* the state the documented chain places before a selection callback
state_before(kind) ==
    CASE kind = "tariff" -> "menu"
      [] kind \in {"addr", "addr_custom"} -> "choose_address"
      [] kind = "time" -> "choose_time"
      [] OTHER -> "choose_qty"

SelectionKinds == {"tariff", "addr", "addr_custom", "time", "qty"}

\* the step dispatches an event of one of the kinds
Dispatched(kinds) == last_event' # last_event /\ last_event'.kind \in kinds

\* C8: a selection callback received in a state other than the one the chain
\* places before it leaves the session state and context unchanged.
C8_SelectionGuarded ==
    [][ (/\ Dispatched(SelectionKinds)
         /\ get_state(fsm_states, last_event'.uid) # state_before(last_event'.kind))
        => fsm_states' = fsm_states ]_vars

\* the step selects a quantity: qty:1 or qty:2 in choose_qty, or a valid manual
\* quantity in awaiting_qty_manual
QtySelected ==
    \/ /\ Dispatched({"qty"})
       /\ last_event'.arg \in {"1", "2"}
       /\ get_state(fsm_states, last_event'.uid) = "choose_qty"
    \/ /\ Dispatched({"text"})
       /\ get_state(fsm_states, last_event'.uid) = "awaiting_qty_manual"
       /\ qty_ok(strip_chars(chars(last_event'.arg)))

\* C9: after a quantity is selected the session state of the user is "confirm".
C9_ConfirmAfterQty ==
    [][ QtySelected => get_state(fsm_states', last_event'.uid) = "confirm" ]_vars

\* the profile lookup of the run returned no profile after a successful reserve
NoProfile(r) == runs[r].reserved /\ runs[r].looked_up /\ runs[r].after = "profile"

\* C10: when the profile lookup returns no profile after a successful
\* reserve, release is called exactly once with the same dish and qty, no
\* order record is appended, and when the handler has returned the session of
\* the user (state and context) is deleted.
C10_NoProfileCompensates ==
    \A r \in RunIds :
        NoProfile(r) =>
            /\ runs[r].releases = 1
            /\ runs[r].rel_dish = runs[r].dish
            /\ runs[r].rel_qty = runs[r].qty
            /\ ~runs[r].appended
            /\ sheet_orders = <<>>
            /\ (runs[r].pc = "done" /\ last_event.kind = "confirm") =>
                    /\ runs[r].cleared
                    /\ fsm_states[runs[r].uid] = NoRow

\* a run without a profile reserved two portions, gave them back and returned
C10_Witness ==
    \E r \in RunIds :
        /\ NoProfile(r)
        /\ runs[r].pc = "done"
        /\ runs[r].qty = 2
        /\ last_event.kind = "confirm"
        /\ quantities(sheet_menu) = runs[r].q0

\* the order record of the run is the last of the order sheet
OrderKept(r) ==
    /\ sheet_orders # <<>>
    /\ sheet_orders[Len(sheet_orders)].user_id = runs[r].uid
    /\ sheet_orders[Len(sheet_orders)].of_dish = runs[r].dish
    /\ sheet_orders[Len(sheet_orders)].qty = runs[r].qty
    /\ sheet_orders[Len(sheet_orders)].payment = runs[r].label

\* C11: when the order-record append raises after a successful reserve,
\* release is called exactly once with the same dish and qty, and neither the
\* CRM push nor the recipient notification is performed.
C11_AppendFailureCompensates ==
    \A r \in RunIds :
        runs[r].after = "persist" =>
            /\ runs[r].reserved
            /\ runs[r].releases = 1
            /\ runs[r].rel_dish = runs[r].dish
            /\ runs[r].rel_qty = runs[r].qty
            /\ ~runs[r].appended
            /\ runs[r].crm = NULL
            /\ runs[r].note = NULL

\* the append of a run that reserved two portions raised; the run gave them
\* back and returned
C11_Witness ==
    \E r \in RunIds :
        /\ runs[r].after = "persist"
        /\ runs[r].pc = "done"
        /\ runs[r].qty = 2
        /\ runs[r].releases = 1
        /\ quantities(sheet_menu) = runs[r].q0

\* the session a run leaves when the order is appended and both pushes
\* succeed: the cached quantity of the card shown is lowered by one, the state
\* is "menu", the chosen dish, address and time are None
session_after_order(row) ==
    LET d == row.data
        shown == 0 <= d.menu_idx /\ d.menu_idx < Len(d.menu)
        cached == d.menu[d.menu_idx + 1].qty
    IN [exists |-> TRUE, state |-> "menu",
        data |-> [d EXCEPT
            !.has = @ \cup (IF shown THEN {"menu"} ELSE {})
                      \cup {"chosen_dish", "chosen_address", "chosen_time"},
            !.menu = IF shown
                     THEN [d.menu EXCEPT ![d.menu_idx + 1].qty = IF cached >= 1 THEN cached - 1 ELSE 0]
                     ELSE d.menu,
            !.chosen_dish = NULL, !.chosen_address = NULL, !.chosen_time = NULL]]

\* the handler of the run in hand has returned and no event came after it
Returned(r) == runs[r].q0 # <<>> /\ runs[r].pc = "done" /\ last_event.kind = "confirm"

\* C12: once the order record is appended, whatever the outcome of the CRM
\* push and of the notifications, release is never called, the order record
\* remains, and the run ends with the session state "menu" and the context it
\* has when both pushes succeed.
C12_PeripheralFailuresIgnored ==
    \A r \in RunIds :
        (runs[r].q0 # <<>> /\ runs[r].appended) =>
            /\ runs[r].releases = 0
            /\ OrderKept(r)
            /\ Returned(r) =>
                /\ runs[r].crm \in {"ok", "failed"}
                /\ runs[r].note \in {"ok", "failed"}
                /\ fsm_states[runs[r].uid] = session_after_order(runs[r].ctx0)

\* a run whose CRM push and notification both failed has returned
C12_Witness ==
    \E r \in RunIds :
        /\ Returned(r)
        /\ runs[r].appended
        /\ runs[r].crm = "failed"
        /\ runs[r].note = "failed"
        /\ get_state(fsm_states, runs[r].uid) = "menu"

\* C13: when reserve fails (row not found or insufficient quantity) the run
\* performs no profile lookup, no order append, no release and no peripheral
\* push, and the session state of the user becomes "menu".
C13_RefusalStops ==
    \A r \in RunIds :
        (runs[r].q0 # <<>> /\ runs[r].err # NULL) =>
            /\ ~runs[r].reserved
            /\ ~runs[r].looked_up
            /\ ~runs[r].appended
            /\ runs[r].releases = 0
            /\ runs[r].crm = NULL
            /\ runs[r].note = NULL
            /\ quantities(sheet_menu) = runs[r].q0
            /\ (runs[r].pc \in {"fail_get_menu", "fail_update", "done"} /\ last_event.kind = "confirm")
                    => get_state(fsm_states, runs[r].uid) = "menu"

\* a confirm of two portions pressed in choose_qty was refused for one
\* portion left, and the handler has returned
C13_Witness ==
    \E r \in RunIds :
        /\ Returned(r)
        /\ runs[r].err = "insufficient"
        /\ runs[r].avail = 1
        /\ runs[r].state0 = "choose_qty"
        /\ get_state(fsm_states, runs[r].uid) = "menu"

\* the render in hand has ended: the handler returned or an exception left it
Rendered == card.pc \in {"done", "raised"}

\* C14: after every render of a step onto an existing card, whatever the
\* outcome of its edit, delete and send calls, exactly one live message
\* represents the current step: never zero, never two.
C14_OneLiveCard ==
    Rendered => (Cardinality(card.live) = 1 /\ \A m \in card.live : m.cur)

\* the calls of the render in hand
ops == [i \in 1..Len(card.calls) |-> card.calls[i].op]

\* the i-th call of the render delivered the card
Delivered(i) == card.calls[i].res = "ok"

EditMediaOps == {"edit_media_url", "fetch_edit", "edit_media_bytes"}

\* C15: show_menu_item from a callback takes the action of the decision
\* table: plain/plain - edit the text in place; plain/photo - delete the
\* existing message and send a photo; photo/plain - delete the existing
\* message and send a plain one; photo/photo - edit the media in place and
\* delete and resend only when the edit was rejected.
C15_DecisionTable ==
    (card.path = "show_menu_item" /\ card.calls # <<>>) =>
        LET n == Len(card.calls) IN
        CASE card.existing = "plain" /\ card.want = "plain" ->
                /\ ops[1] = "edit_text"
                /\ \A i \in 1..n : ops[i] # "delete"
          [] card.existing = "plain" /\ card.want = "photo" ->
                /\ ops[1] = "delete"
                /\ n >= 2 => ops[2] = "send_photo_url"
                /\ \A i \in 1..n : ops[i] \notin EditMediaOps \cup {"edit_text"}
          [] card.existing = "photo" /\ card.want = "plain" ->
                /\ ops[1] = "delete"
                /\ n >= 2 => ops[2] = "send_text"
                /\ n <= 2
          [] OTHER ->
                /\ ops[1] = "edit_media_url"
                /\ \A i \in 1..n :
                    /\ (ops[i] \in EditMediaOps /\ Delivered(i)) => i = n
                    /\ ops[i] = "delete" =>
                        /\ i > 1
                        /\ ops[i - 1] \in EditMediaOps
                        /\ ~Delivered(i - 1)
                        /\ n > i => ops[i + 1] = "send_photo_url"

\* a photo card whose edit by URL and by bytes was rejected is deleted and
\* sent again
C15_Witness ==
    /\ card.path = "show_menu_item"
    /\ card.existing = "photo" /\ card.want = "photo"
    /\ card.pc = "done"
    /\ Len(card.calls) = 5
    /\ ops[3] = "edit_media_bytes" /\ ops[4] = "delete" /\ ops[5] = "send_photo_url"

SendOps == {"send_text", "send_photo_url", "send_photo_bytes", "send_fallback"}

\* C16: when identical content is rendered onto a plain message and the
\* transport rejects the edit as "content unchanged", the render raises no
\* error, deletes no message and sends no new message.
C16_UnchangedIsNoOp ==
    (card.calls # <<>> /\ card.calls[1] = [op |-> "edit_text", res |-> "not_modified"]) =>
        /\ card.pc # "raised"
        /\ \A i \in 1..Len(card.calls) : ops[i] \notin SendOps \cup {"delete"}

\* the attempts of the photo delivery that delivered the card
Deliveries == {i \in 1..Len(card.calls) :
                ops[i] \in {"send_photo_url", "send_photo_bytes", "send_fallback"} /\ Delivered(i)}

\* C17: the photo delivery tries the tiers in order: by reference first; the
\* bytes are fetched and sent or edited only after the by-reference attempt
\* failed; the text noting the unavailable image is sent only after both photo
\* attempts failed; at most one attempt delivers the card, and exactly one
\* when the delivery has returned.
C17_TiersInOrder ==
    LET n == Len(card.calls) IN
    /\ \A i \in 1..n :
        /\ ops[i] = "fetch_send" =>
                i > 1 /\ ops[i - 1] = "send_photo_url" /\ ~Delivered(i - 1)
        /\ ops[i] = "send_photo_bytes" =>
                i > 2 /\ card.calls[i - 1] = [op |-> "fetch_send", res |-> "data"]
        /\ ops[i] = "send_fallback" =>
                /\ i > 2
                /\ \/ card.calls[i - 1] = [op |-> "fetch_send", res |-> "none"]
                   \/ ops[i - 1] = "send_photo_bytes" /\ ~Delivered(i - 1)
                /\ \E j \in 1..(i - 1) : ops[j] = "send_photo_url" /\ ~Delivered(j)
        /\ ops[i] = "fetch_edit" =>
                i > 1 /\ ops[i - 1] = "edit_media_url" /\ ~Delivered(i - 1)
        /\ ops[i] = "edit_media_bytes" =>
                i > 2 /\ card.calls[i - 1] = [op |-> "fetch_edit", res |-> "data"]
    /\ Cardinality(Deliveries) <= 1
    /\ (card.pc = "done" /\ \E i \in 1..n : ops[i] = "send_photo_url") =>
            Cardinality(Deliveries) = 1

\* the photo could be sent neither by URL nor by bytes: the text delivered
\* the card
C17_Witness ==
    /\ card.pc = "done"
    /\ Len(card.calls) >= 4
    /\ LET n == Len(card.calls) IN
        /\ card.calls[n] = [op |-> "send_fallback", res |-> "ok"]
        /\ card.calls[n - 1] = [op |-> "send_photo_bytes", res |-> "error"]
        /\ card.calls[n - 2] = [op |-> "fetch_send", res |-> "data"]
        /\ card.calls[n - 3] = [op |-> "send_photo_url", res |-> "bad_request"]

\* the digits of a text
digits_of(text) == SelectSeq(chars(text), is_digit)

RECURSIVE significant(_)
\* the digits of a number without its leading zeros
significant(s) == IF s # <<>> /\ Head(s) = "0" THEN significant(Tail(s)) ELSE s

\* the text is a quantity from 1 to 999: digits only, one to three of them
\* after the leading zeros
IsQuantity(text) ==
    LET raw == strip_chars(chars(text)) IN
    /\ \A i \in 1..Len(raw) : is_digit(raw[i])
    /\ Len(significant(raw)) \in 1..3

\* the text fails the guard of the state it is received in
FailsGuard(state, text) ==
    \/ state = "awaiting_name" /\ ~name_ok(strip_chars(chars(text)))
    \/ state = "awaiting_phone" /\ Len(digits_of(text)) < MinPhoneDigits
    \/ state = "awaiting_custom_address" /\ Len(strip_chars(chars(text))) < MinAddressLen
    \/ state = "awaiting_qty_manual" /\ ~IsQuantity(text)

\* C18: a text that fails the guard of its state (name not two letter tokens,
\* phone with fewer than 10 digits, custom address shorter than 5 characters,
\* quantity outside 1..999) leaves the session state and context and the
\* client sheet unchanged.
C18_GuardFailureKeepsSession ==
    [][ (/\ Dispatched({"text"})
         /\ FailsGuard(get_state(fsm_states, last_event'.uid), last_event'.arg))
        => (fsm_states' = fsm_states /\ sheet_clients' = sheet_clients) ]_vars

\* the quantity 0 was typed in awaiting_qty_manual and the session has a
\* chosen time
C18_Witness ==
    /\ last_event.kind = "text"
    /\ last_event.arg = "0"
    /\ get_state(fsm_states, last_event.uid) = "awaiting_qty_manual"
    /\ "chosen_time" \in get_data(fsm_states, last_event.uid).has

\* the phone is one normalize_phone accepts: a leading "+" and 10 digits or more
AcceptedPhone(phone) ==
    /\ chars(phone) # <<>>
    /\ Head(chars(phone)) = "+"
    /\ Len(digits_of(phone)) >= MinPhoneDigits

\* C19: a client row is added, and the user leaves awaiting_phone for menu,
\* only with a phone that normalization accepted, for a typed phone and for a
\* shared contact alike.
C19_OnlyNormalizedPhones ==
    \A i \in 1..Len(sheet_clients) : AcceptedPhone(sheet_clients[i].phone)

\* C20: a /start or a text of a user with no session row is handled as in
\* awaiting_name when the user has no client row (a two-word name is stored
\* and the phone is asked), and as in menu otherwise.
C20_NoSessionDefault ==
    [][ (Dispatched({"start", "text"}) /\ ~fsm_states[last_event'.uid].exists) =>
            LET u == last_event'.uid
                registered == find_client(sheet_clients, u) # 0
            IN IF last_event'.kind = "start"
               THEN get_state(fsm_states', u) = IF registered THEN "menu" ELSE "awaiting_name"
               ELSE IF registered
                    THEN fsm_states' = fsm_states
                    ELSE name_ok(strip_chars(chars(last_event'.arg))) =>
                            /\ get_state(fsm_states', u) = "awaiting_phone"
                            /\ get_data(fsm_states', u).name = last_event'.arg ]_vars

\* the state a back target names
named_state(target) ==
    CASE target = "menu" -> "menu"
      [] target = "addr" -> "choose_address"
      [] target = "time" -> "choose_time"
      [] OTHER -> "choose_qty"

\* C21: each back callback (back:menu, back:addr, back:time, back:qty) sets
\* the session state to the state its target names and leaves every field of
\* the context unchanged.
C21_BackKeepsContext ==
    [][ (Dispatched({"back"}) /\ last_event'.arg \in {"menu", "addr", "time", "qty"}) =>
            /\ get_state(fsm_states', last_event'.uid) = named_state(last_event'.arg)
            /\ get_data(fsm_states', last_event'.uid) = get_data(fsm_states, last_event'.uid) ]_vars

\* back:time was pressed and the session, now in choose_time, still holds the
\* address, the time and the quantity chosen before
C21_Witness ==
    /\ last_event.kind = "back"
    /\ last_event.arg = "time"
    /\ get_state(fsm_states, last_event.uid) = "choose_time"
    /\ {"chosen_address", "chosen_time", "qty"} \subseteq get_data(fsm_states, last_event.uid).has

\* the cursor one step before or after idx on a ring of n cards
ring(idx, step, n) ==
    IF idx + step < 0 THEN n - 1 ELSE IF idx + step >= n THEN 0 ELSE idx + step

\* a menu_prev or menu_next step leaves the session state alone; on a cached
\* menu of more than one dish it writes the wrapped cursor and nothing else,
\* on a menu of one dish it writes nothing
CursorStep ==
    Dispatched({"menu_next", "menu_prev"}) =>
        LET u == last_event'.uid
            d == get_data(fsm_states, u)
            n == Len(d.menu)
            step == IF last_event'.kind = "menu_next" THEN 1 ELSE -1
        IN /\ get_state(fsm_states', u) = get_state(fsm_states, u)
           /\ n > 1 => get_data(fsm_states', u) =
                            [d EXCEPT !.menu_idx = ring(d.menu_idx, step, n)]
           /\ n = 1 => fsm_states' = fsm_states

\* menu_next followed by menu_prev gives the cursor back
CursorRoundTrip ==
    \A u \in Users :
        LET d == get_data(fsm_states, u)
            n == Len(d.menu)
        IN n > 1 => /\ menu_cursor(menu_cursor(d.menu_idx, 1, n), -1, n) = d.menu_idx
                    /\ menu_cursor(menu_cursor(d.menu_idx, -1, n), 1, n) = d.menu_idx

\* C22: menu_prev and menu_next never change the session state; on a cached
\* menu of length n > 1 they set the cursor to (idx - 1) mod n and
\* (idx + 1) mod n, so that next followed by prev restores the cursor; on a
\* menu of length 1 they change nothing.
C22_CursorWraps == [][CursorStep]_vars /\ []CursorRoundTrip

\* menu_prev on the first card of a menu of three dishes showed the last card
C22_Witness ==
    /\ last_event.kind = "menu_prev"
    /\ Len(get_data(fsm_states, last_event.uid).menu) = 3
    /\ get_data(fsm_states, last_event.uid).menu_idx = 2
    /\ get_state(fsm_states, last_event.uid) = "menu"

\* the dish of the card the cursor of the user is on, NULL without a card
dish_at_cursor(u) ==
    LET d == get_data(fsm_states, u) IN
    IF 0 <= d.menu_idx /\ d.menu_idx < Len(d.menu) THEN d.menu[d.menu_idx + 1].dish ELSE NULL

\* the rows of the dish on the date the bot takes for today
today_rows(dish) ==
    {i \in 1..Len(sheet_menu) :
        /\ sheet_menu[i].day.date = now_msk_str(clock).date
        /\ DishKey(sheet_menu[i].dish) = DishKey(dish)}

\* a row of the dish at the cursor exists and has a portion left
Available(u) ==
    /\ dish_at_cursor(u) # NULL
    /\ today_rows(dish_at_cursor(u)) # {}
    /\ \A i \in today_rows(dish_at_cursor(u)) : sheet_menu[i].qty > 0

\* C23: selecting a tariff never changes a quantity of the menu sheet, and it
\* moves the session to choose_address, storing the dish at the cursor and the
\* tariff, if and only if the row of today's dish at the cursor exists and
\* its quantity is greater than 0; otherwise the session is left as it is.
C23_TariffChecksAvailability ==
    [][ Dispatched({"tariff"}) =>
            LET u == last_event'.uid
                d == get_data(fsm_states, u)
            IN /\ sheet_menu' = sheet_menu
               /\ IF Available(u)
                  THEN /\ get_state(fsm_states', u) = "choose_address"
                       /\ get_data(fsm_states', u) =
                            [d EXCEPT !.has = @ \cup {"chosen_dish", "chosen_tariff"},
                                      !.chosen_dish = dish_at_cursor(u),
                                      !.chosen_tariff = tariff_label(last_event'.arg)]
                  ELSE fsm_states' = fsm_states ]_vars

\* a tariff was selected on the third card of the menu and the session moved
\* to choose_address with that dish
C23_Witness ==
    /\ last_event.kind = "tariff"
    /\ get_state(fsm_states, last_event.uid) = "choose_address"
    /\ get_data(fsm_states, last_event.uid).menu_idx = 2
    /\ get_data(fsm_states, last_event.uid).chosen_dish = "Soup"
    /\ get_data(fsm_states, last_event.uid).chosen_tariff = "Standard (+soup)"

\* the row of today's dish at the cursor exists and has no portion left
SoldOut(u) ==
    /\ dish_at_cursor(u) # NULL
    /\ today_rows(dish_at_cursor(u)) # {}
    /\ \A i \in today_rows(dish_at_cursor(u)) : sheet_menu[i].qty = 0

\* C24: when a user in menu selects a tariff for a dish whose quantity is 0,
\* the session stays in menu with its context unchanged, no order record is
\* created, and a missed-demand record of the user and the dish is appended.
C24_SoldOutRejected ==
    [][ (/\ Dispatched({"tariff"})
         /\ get_state(fsm_states, last_event'.uid) = "menu"
         /\ SoldOut(last_event'.uid)) =>
            /\ fsm_states' = fsm_states
            /\ sheet_orders' = sheet_orders
            /\ Len(sheet_overorders') = Len(sheet_overorders) + 1
            /\ sheet_overorders'[Len(sheet_overorders')].user_id = last_event'.uid
            /\ sheet_overorders'[Len(sheet_overorders')].dish = dish_at_cursor(last_event'.uid) ]_vars

\* the call in hand is a call of the method of the store
StoreCalled(fn) == call.fn = fn

\* C25: set_state(user, None) leaves the store as clear(user) does: get_state
\* gives None and get_data the empty map for the user, whatever state and
\* context were stored before; and clear leaves what set_state(None) leaves.
C25_SetStateNoneIsClear ==
    /\ (StoreCalled("set_state") /\ call.arg = NULL) =>
            /\ fsm_states = clear(call.before, call.uid)
            /\ get_state(fsm_states, call.uid) = NULL
            /\ get_data(fsm_states, call.uid) = EmptyData
            /\ ~fsm_states[call.uid].exists
    /\ StoreCalled("clear") =>
            /\ fsm_states = set_state(call.before, call.uid, NULL)
            /\ get_state(fsm_states, call.uid) = NULL
            /\ get_data(fsm_states, call.uid) = EmptyData

\* set_state(None) was called for a user in confirm with a name and a
\* quantity stored
C25_Witness ==
    /\ StoreCalled("set_state")
    /\ call.arg = NULL
    /\ call.before[call.uid].state = "confirm"
    /\ {"name", "qty"} \subseteq call.before[call.uid].data.has
    /\ fsm_states[call.uid] = NoRow

\* the keys of a context
ContextKeys == {"username", "name", "phone", "menu", "menu_idx", "chosen_dish",
                "chosen_tariff", "chosen_address", "chosen_time", "qty", "reply_target"}

\* C26: run one at a time, set_state with a non-null state leaves the whole
\* context of the user unchanged, and update_data(partial) leaves the state
\* unchanged, overwrites exactly the keys of partial and keeps every other
\* stored key with its value.
C26_StoreFrames ==
    /\ (StoreCalled("set_state") /\ call.arg # NULL) =>
            /\ get_state(fsm_states, call.uid) = call.arg
            /\ get_data(fsm_states, call.uid) = get_data(call.before, call.uid)
    /\ StoreCalled("update_data") =>
            LET old == get_data(call.before, call.uid)
                new == get_data(fsm_states, call.uid)
                p == patch(call.arg)
            IN /\ get_state(fsm_states, call.uid) = get_state(call.before, call.uid)
               /\ \A key \in ContextKeys :
                    IF key \in p.has
                    THEN key \in new.has /\ new[key] = p[key]
                    ELSE (key \in new.has <=> key \in old.has) /\ new[key] = old[key]

\* update_data(chosen_dish=None, chosen_address=None, chosen_time=None) was
\* called for a user in confirm whose context held a name, a quantity and a
\* chosen dish
C26_Witness ==
    /\ StoreCalled("update_data")
    /\ call.arg = "reset"
    /\ call.before[call.uid].state = "confirm"
    /\ {"name", "qty", "chosen_dish"} \subseteq call.before[call.uid].data.has
    /\ call.before[call.uid].data.chosen_dish = "Plov"
    /\ get_data(fsm_states, call.uid).name = "Al Bo"

\* the step belongs to the handler of an event the user sent: the dispatch of
\* the event, or a later step of the commit run the user's confirm started
Handles(a) ==
    \/ last_event' # last_event /\ last_event'.uid = a
    \/ last_event' = last_event /\ \E r \in RunIds : runs'[r] # runs[r] /\ runs[r].uid = a

\* C27: handling an event sent by user A never writes or deletes the session
\* row (state or context) of another user B, for every handler and every
\* sequence of events.
C27_SessionsPartitioned ==
    [][ \A a \in Users :
            Handles(a) => \A b \in Users \ {a} : fsm_states'[b] = fsm_states[b] ]_vars

\* the commit run of the customer has appended the order and returned while
\* the operator's session holds the reply state and the customer as target
C27_Witness ==
    /\ runs[1].pc = "done"
    /\ runs[1].uid = "u1"
    /\ runs[1].appended
    /\ last_event.kind = "confirm"
    /\ get_state(fsm_states, "u1") = "menu"
    /\ get_state(fsm_states, ADMIN_CHAT_ID) = "awaiting_support_reply"
    /\ get_data(fsm_states, ADMIN_CHAT_ID).reply_target = "u1"

\* release_portions_for_today, called on its own, has returned
ReleaseReturned(r) == runs[r].after = "alone" /\ runs[r].pc = "done"

\* the release that follows the successful reserve of the run has returned
RoundTripDone(r) == runs[r].reserved /\ runs[r].after = "profile" /\ runs[r].pc = "clear"

\* C28: release(dish, qty) changes nothing when no row matches today's date
\* and the dish, and otherwise adds qty to the quantity of that row, with no
\* upper bound; a successful reserve(dish, qty) followed by release(dish, qty)
\* with no other ledger operation in between restores the original quantity.
C28_ReleaseRestores ==
    /\ ReleaseReturned(1) =>
            LET q0 == runs[1].q0
                rows == rows_of(runs[1].rel_dish)
            IN IF rows = {}
               THEN quantities(sheet_menu) = q0
               ELSE \A i \in rows :
                        quantities(sheet_menu) = [q0 EXCEPT ![i] = q0[i] + runs[1].rel_qty]
    /\ RoundTripDone(1) =>
            /\ runs[1].rel_dish = runs[1].dish
            /\ runs[1].rel_qty = runs[1].qty
            /\ quantities(sheet_menu) = runs[1].q0

\* a reserve took every portion of the second row, named in another case,
\* and the release gave them back
C28_Witness ==
    /\ RoundTripDone(1)
    /\ rows_of(runs[1].dish) = {2}
    /\ sheet_menu[2].dish # runs[1].dish
    /\ runs[1].qty = MaxStock
    /\ sheet_menu[2].qty = MaxStock

\* the texts that name the same dish as t, in any case and with blanks around
SameDish(t) == {x \in DishTexts \cup {NULL} : DishKey(x) = DishKey(t)}

\* the sheets that differ from sheet only in the format of the day cells and
\* in the case and the surrounding blanks of the dish cells
Rewritten(sheet) ==
    { [i \in 1..Len(sheet) |->
          [sheet[i] EXCEPT !.day = [fmt |-> f[i], date |-> sheet[i].day.date], !.dish = t[i]]] :
      f \in [1..Len(sheet) -> DayFormats],
      t \in {x \in [1..Len(sheet) -> DishTexts] :
                \A i \in 1..Len(sheet) : x[i] \in SameDish(sheet[i].dish)} }

\* C29: find_menu_row_by_day_and_dish gives the same row whichever of the
\* three formats (YYYY-MM-DD HH:MM:SS, YYYY-MM-DD, dd.mm.yyyy) the wanted day
\* and the day cells of the rows are written in for the same calendar dates,
\* and however the wanted dish and the dish cells differ in letter case and
\* surrounding blanks.
C29_FormatIndependent ==
    call.fn = "find" =>
        /\ \A fmt \in DayFormats, dish \in SameDish(call.dish_name) :
              find_menu_row_by_day_and_dish(sheet_menu,
                  [fmt |-> fmt, date |-> call.day_name.date], dish, clock) = call.row
        /\ \A sheet \in Rewritten(sheet_menu) :
              find_menu_row_by_day_and_dish(sheet, call.day_name, call.dish_name, clock) = call.row

\* the second row was found although its day cell is written in another
\* format than the wanted day and its dish in another case, with blanks
C29_Witness ==
    /\ call.fn = "find"
    /\ call.row = 2
    /\ sheet_menu[2].day.fmt = "iso"
    /\ call.day_name.fmt = "isodt"
    /\ sheet_menu[2].dish = " plov "
    /\ call.dish_name = "Plov"

\* C30: normalize_phone returns no result when the text holds fewer than 10
\* digits, and otherwise a text made of one leading '+' followed only by
\* digits, 10 of them or more, a leading '8' being rewritten to '+7'.
C30_PlusThenDigits ==
    call.fn = "normalize_phone" =>
        LET held == SelectSeq(call.text, is_digit)
            result == call.result
        IN IF Len(held) < MinPhoneDigits
           THEN result = <<>>
           ELSE /\ result # <<>>
                /\ Head(result) = "+"
                /\ \A i \in 2..Len(result) : is_digit(result[i])
                /\ Len(result) - 1 >= MinPhoneDigits
                /\ Head(call.text) = "8" => result[2] = "7"

\* C31: every appended order record holds a dish, a tariff, an address, a time
\* slot and a quantity that were all chosen in one forward pass after the
\* user's most recent tariff selection; in particular no record holds a
\* missing value.
C31_RecordComplete ==
    \A i \in 1..Len(sheet_orders) :
        /\ sheet_orders[i].of_dish # NULL
        /\ sheet_orders[i].tariff # ""
        /\ sheet_orders[i].address # NULL
        /\ sheet_orders[i].timeslot # NULL

\* the run appended its order record and returned, and no event came since
Committed(r) ==
    /\ runs[r].q0 # <<>>
    /\ runs[r].appended
    /\ runs[r].pc = "done"
    /\ last_event.kind = "confirm"

\* C38: after a successful commit of quantity qty, the quantity of the ordered
\* dish in the cached menu of the session is lower by qty, floored at 0, than
\* it was when confirm was pressed.
C38_CacheFollowsLedger ==
    \A r \in RunIds :
        Committed(r) =>
            LET before == runs[r].ctx0.data.menu
                cached == get_data(fsm_states, runs[r].uid).menu
            IN \A i \in 1..Len(before) :
                    strip(before[i].dish) = runs[r].dish =>
                        /\ i <= Len(cached)
                        /\ cached[i].qty =
                              IF before[i].qty - need_of(runs[r].qty) < 0 THEN 0
                              ELSE before[i].qty - need_of(runs[r].qty)

\* the run was started by a confirm press that found chosen_dish stored as
\* None: the last update of a successful commit is the only write of None to
\* that key, and every tariff selection overwrites it
AfterCommit(r) ==
    /\ runs[r].q0 # <<>>
    /\ "chosen_dish" \in runs[r].ctx0.data.has
    /\ runs[r].ctx0.data.chosen_dish = NULL

HasProfile(u) == \E j \in 1..Len(sheet_clients) : sheet_clients[j].telegram_id = u

\* C36: no order record is ever appended for a user who has no customer
\* profile when the commit looks it up, whatever events (/menu or /support
\* before any registration among them) brought the user to press confirm, and
\* the reservation taken for such a user is released.
C36_NoProfileNoOrder ==
    /\ \A i \in 1..Len(sheet_orders) : HasProfile(sheet_orders[i].user_id)
    /\ \A r \in RunIds :
        (runs[r].looked_up /\ ~HasProfile(runs[r].uid)) =>
            /\ ~runs[r].appended
            /\ runs[r].releases = 1
            /\ runs[r].rel_dish = runs[r].dish
            /\ runs[r].rel_qty = runs[r].qty
            /\ runs[r].pc \in {"clear", "done"} => quantities(sheet_menu) = runs[r].q0

\* the operator is registered, the customer is not: the customer's run took
\* the last portion, found no profile, gave the portion back and returned
C36_Witness ==
    \E r \in RunIds :
        /\ runs[r].uid = "u1"
        /\ runs[r].reserved
        /\ runs[r].looked_up
        /\ runs[r].pc = "done"
        /\ runs[r].q0[2] = 1
        /\ sheet_menu[2].qty = 1
        /\ HasProfile(ADMIN_CHAT_ID)
        /\ ~HasProfile("u1")
        /\ sheet_orders = <<>>

\* the day cell holds the calendar date, in one of the three formats
Denotes(cell, date) == cell.fmt \in DayFormats /\ cell.date = date

\* C35: get_menu_for_day and find_menu_row_by_day_and_dish match a row only
\* when its day cell denotes the requested calendar date; a row whose day cell
\* is empty or holds no recognisable date is never returned.
C35_OnlyDatedRows ==
    /\ (call.fn = "find" /\ call.row # 0) =>
            Denotes(sheet_menu[call.row].day, call.day_name.date)
    /\ call.fn = "get_menu" =>
            \A i \in 1..Len(call.rows) : Denotes(call.rows[i].day, call.day_name.date)

\* the row the availability check of cb_choose_tariff resolves for the dish
CheckedRow(dish) == find_menu_row_by_day_and_dish(sheet_menu, now_msk_str(clock), dish, clock)

\* C34: at every clock time the menu snapshot, the availability check at
\* tariff selection and the reserve at confirm resolve today to the same
\* calendar day: the dish that passed the availability check is located by
\* reserve on the row the check looked at.
C34_SameToday ==
    \A r \in RunIds :
        (runs[r].q0 # <<>> /\ runs[r].dish # NULL) =>
            /\ runs[r].pc = "reserve_read" => runs[r].row = CheckedRow(runs[r].dish)
            /\ runs[r].err = "not_found" => CheckedRow(runs[r].dish) = 0

\* C33: whenever the cached menu of a session is not empty, the stored cursor
\* satisfies 0 <= menu_idx < length of the cached menu, after any events of
\* the user, two events handled at the same time included.
C33_CursorInMenu ==
    \A u \in Users :
        LET d == get_data(fsm_states, u)
        IN d.menu # <<>> => (0 <= d.menu_idx /\ d.menu_idx < Len(d.menu))

\* both handlers have returned, they ran at the same time and passed
\* different keys to update_data
BothUpdated(t1, t2) ==
    /\ t1 # t2
    /\ tasks[t1].pc = "done" /\ tasks[t2].pc = "done"
    /\ tasks[t1].overlapped \/ tasks[t2].overlapped
    /\ tasks[t1].uid = tasks[t2].uid
    /\ tasks[t1].partial.has # {} /\ tasks[t2].partial.has # {}
    /\ tasks[t1].partial.has \cap tasks[t2].partial.has = {}

\* C32: when two handlers of the same user's events run at the same time and
\* each calls update_data with different keys, the stored context holds the
\* keys of both, with the values they passed, once both calls have finished.
C32_NoLostUpdate ==
    \A t1, t2 \in TaskIds :
        BothUpdated(t1, t2) =>
            LET d == get_data(fsm_states, tasks[t1].uid)
            IN /\ merge(d, tasks[t1].partial) = d
               /\ merge(d, tasks[t2].partial) = d

====
